---- MODULE Spec2Model ----
(***************************************************************************)
(* A model of the citybike domain classes (src/citybike/models.py) and of   *)
(* the factories that build them from records (src/citybike/factories.py). *)
(*                                                                         *)
(* Python objects live in per-class heaps (sequences); an object's         *)
(* identity is its index in the heap.  An object is a record               *)
(* [cls, d] where d is the instance's attribute dictionary.  Python        *)
(* values are tagged records [t, s, n]: t is the Python type, s the text   *)
(* of a str as a sequence of characters (or "nan" for the float NaN), n    *)
(* the number of an int, a float or a datetime (seconds), or the heap      *)
(* index of a referenced object.                                           *)
(***************************************************************************)
EXTENDS Integers, Sequences, FiniteSets, TLC

VARIABLES
    bikes,      \* heap of Bike / ClassicBike / ElectricBike instances
    born,       \* history: each bike exactly as its constructor returned it
    stations,   \* heap of Station instances
    users,      \* heap of CasualUser / MemberUser instances
    trips,      \* heap of Trip instances
    tripArgs,   \* history: the arguments each Trip was constructed with
    records,    \* heap of MaintenanceRecord instances
    recordArgs, \* history: the arguments each MaintenanceRecord was constructed with
    now,        \* the wall clock read by datetime.now()
    last,       \* history: the last operation, its arguments and its outcome
    log         \* history: every call of a factory, its record and its outcome

vars == <<bikes, born, stations, users, trips, tripArgs, records, recordArgs, now, last, log>>

-----------------------------------------------------------------------------
(* Bounds of the model.                                                    *)

MaxBikes == 2
MaxStations == 1
MaxUsers == 1
MaxTrips == 1
MaxRecords == 1
MaxTime == 1
MaxCalls == 2
MaxLen == 3
Precision == 7

-----------------------------------------------------------------------------
(* Python values.                                                          *)

PyStr(x) == [t |-> "str", s |-> x, n |-> 0]
PyInt(x) == [t |-> "int", s |-> <<>>, n |-> x]
PyFloat(x) == [t |-> "float", s |-> <<>>, n |-> x]
PyDateTime(x) == [t |-> "datetime", s |-> <<>>, n |-> x]
NaN == [t |-> "float", s |-> <<"n", "a", "n">>, n |-> 0]
None == [t |-> "NoneType", s |-> <<>>, n |-> 0]
\* A reference to the object at index i of the heap of class cls.
Ref(cls, i) == [t |-> cls, s |-> <<>>, n |-> i]

IsStr(v) == v.t = "str"
IsNumber(v) == v.t \in {"int", "float"}
IsNaN(v) == v.t = "float" /\ v.s = <<"n", "a", "n">>

\* bool(v): the truth value Python gives v in `not v`, `v or w`.
Truthy(v) ==
    CASE v.t = "str" -> v.s # <<>>
      [] v.t = "NoneType" -> FALSE
      [] v.t = "int" -> v.n # 0
      [] v.t = "float" -> IsNaN(v) \/ v.n # 0
      [] OTHER -> TRUE

\* a <= b on numbers: every ordered comparison with NaN is False.
NumLe(a, b) == ~IsNaN(a) /\ ~IsNaN(b) /\ a.n <= b.n
NumLt(a, b) == ~IsNaN(a) /\ ~IsNaN(b) /\ a.n < b.n

IsDateTime(v) == v.t = "datetime"
IsInt(v) == v.t = "int"

\* str.strip(): leading and trailing whitespace removed.
Whitespace == {" ", "\t", "\n"}

RECURSIVE LStrip(_)
LStrip(cs) ==
    IF cs # <<>> /\ Head(cs) \in Whitespace THEN LStrip(Tail(cs)) ELSE cs

RECURSIVE RStrip(_)
RStrip(cs) ==
    IF cs # <<>> /\ cs[Len(cs)] \in Whitespace
    THEN RStrip(SubSeq(cs, 1, Len(cs) - 1)) ELSE cs

Strip(v) == PyStr(RStrip(LStrip(v.s)))

\* str.lower() on ASCII letters.
UpperCase == <<"A", "B", "C", "D", "E", "F", "G", "H", "I", "J", "K", "L", "M",
               "N", "O", "P", "Q", "R", "S", "T", "U", "V", "W", "X", "Y", "Z">>
LowerCase == <<"a", "b", "c", "d", "e", "f", "g", "h", "i", "j", "k", "l", "m",
               "n", "o", "p", "q", "r", "s", "t", "u", "v", "w", "x", "y", "z">>

LowerChar(c) ==
    IF \E i \in DOMAIN UpperCase : UpperCase[i] = c
    THEN LowerCase[CHOOSE i \in DOMAIN UpperCase : UpperCase[i] = c]
    ELSE c

Lower(v) == PyStr([i \in DOMAIN v.s |-> LowerChar(v.s[i])])

\* c in v for a one-character string c.
Contains(v, c) == \E i \in DOMAIN v.s : v.s[i] = c

-----------------------------------------------------------------------------
(* Outcomes of a call: the exception raised ("" when none) and the object  *)
(* the call produced.                                                      *)

NoDict == <<>>
NoObj == [cls |-> "", d |-> NoDict]
Ok(o) == [exc |-> "", obj |-> o]
Raise(e) == [exc |-> e, obj |-> NoObj]

\* obj.name where name is an instance attribute: AttributeError when unset.
HasAttr(o, name) == name \in DOMAIN o.d
GetAttr(o, name) == IF HasAttr(o, name) THEN Ok(o.d[name]) ELSE Raise("AttributeError")

-----------------------------------------------------------------------------
(* Entity                                                                  *)

\* A faulty variant of the id check: any truthy id passes, string or not.
Entity__init___any_truthy(cls, id, created_at) ==
    IF ~Truthy(id)
    THEN Raise("ValueError")
    ELSE Ok([cls |-> cls,
             d |-> [_id |-> id,
                    _created_at |-> IF Truthy(created_at) THEN created_at
                                    ELSE PyDateTime(now)]])

Entity__init__(cls, id, created_at) ==
    IF ~Truthy(id) \/ ~IsStr(id)
    THEN Raise("ValueError")
    ELSE Ok([cls |-> cls,
             d |-> [_id |-> id,
                    _created_at |-> IF Truthy(created_at) THEN created_at
                                    ELSE PyDateTime(now)]])

Entity_id(o) == o.d._id
Entity_created_at(o) == o.d._created_at

-----------------------------------------------------------------------------
(* Bike                                                                    *)

AVAILABLE == PyStr(<<"a", "v", "a", "i", "l", "a", "b", "l", "e">>)
IN_USE == PyStr(<<"i", "n", "_", "u", "s", "e">>)
MAINTENANCE == PyStr(<<"m", "a", "i", "n", "t", "e", "n", "a", "n", "c", "e">>)
CLASSIC == PyStr(<<"c", "l", "a", "s", "s", "i", "c">>)
ELECTRIC == PyStr(<<"e", "l", "e", "c", "t", "r", "i", "c">>)

VALID_STATUSES == {AVAILABLE, IN_USE, MAINTENANCE}

BIKE_TYPES == {CLASSIC, ELECTRIC}

Bike__init__(cls, bike_id, bike_type, status) ==
    LET e == Entity__init__(cls, bike_id, None) IN
    IF e.exc # "" THEN e
    ELSE IF bike_type \notin BIKE_TYPES THEN Raise("ValueError")
    ELSE IF status \notin VALID_STATUSES THEN Raise("ValueError")
    ELSE Ok([e.obj EXCEPT !.d = [_bike_type |-> bike_type, _status |-> status] @@ @])

Bike_bike_type(o) == o.d._bike_type
Bike_status(o) == o.d._status

\* Faulty variants of the status setter: one never validates, one forbids
\* leaving maintenance, one assigns before it validates, one refreshes the
\* creation time on every accepted assignment.
Bike_status_set_unvalidated(o, value) ==
    [exc |-> "", obj |-> [o EXCEPT !.d._status = value]]

Bike_status_set_one_way(o, value) ==
    IF value \notin VALID_STATUSES \/ (o.d._status = MAINTENANCE /\ value # MAINTENANCE)
    THEN [exc |-> "ValueError", obj |-> o]
    ELSE [exc |-> "", obj |-> [o EXCEPT !.d._status = value]]

Bike_status_set_assign_first(o, value) ==
    [exc |-> IF value \notin VALID_STATUSES THEN "ValueError" ELSE "",
     obj |-> [o EXCEPT !.d._status = value]]

Bike_status_set_touch(o, value) ==
    IF value \notin VALID_STATUSES
    THEN [exc |-> "ValueError", obj |-> o]
    ELSE [exc |-> "", obj |-> [o EXCEPT !.d._status = value,
                                        !.d._created_at = PyDateTime(now)]]

\* The status setter: the outcome and the object after the call.
Bike_status_set(o, value) ==
    IF value \notin VALID_STATUSES
    THEN [exc |-> "ValueError", obj |-> o]
    ELSE [exc |-> "", obj |-> [o EXCEPT !.d._status = value]]

\* Assigning to a property that has no setter (id, created_at, bike_type,
\* gear_count, battery_level, max_range_km): the object is left as it was.
ReadOnlyProperties(o) ==
    {"id", "created_at", "bike_type"}
        \cup (IF o.cls = "ClassicBike" THEN {"gear_count"} ELSE {})
        \cup (IF o.cls = "ElectricBike" THEN {"battery_level", "max_range_km"} ELSE {})

Property_set(o, name, value) ==
    IF name = "status" THEN Bike_status_set(o, value)
    ELSE [exc |-> "AttributeError", obj |-> o]

-----------------------------------------------------------------------------
(* ClassicBike                                                             *)

\* gear_count <= 0 between a number and 0; other operand types raise TypeError.
ClassicBike__init__(bike_id, gear_count, status) ==
    LET b == Bike__init__("ClassicBike", bike_id, CLASSIC, status) IN
    IF b.exc # "" THEN b
    ELSE IF ~IsNumber(gear_count) THEN Raise("TypeError")
    ELSE IF NumLe(gear_count, PyInt(0)) THEN Raise("ValueError")
    ELSE Ok([b.obj EXCEPT !.d = [_gear_count |-> gear_count] @@ @])

ClassicBike_gear_count(o) == o.d._gear_count

-----------------------------------------------------------------------------
(* ElectricBike                                                            *)

ElectricBike__init__(bike_id, battery_level, max_range_km, status) ==
    LET b == Bike__init__("ElectricBike", bike_id, ELECTRIC, status) IN
    IF b.exc # "" THEN b
    ELSE IF ~IsNumber(battery_level) THEN Raise("TypeError")
    ELSE IF ~(NumLe(PyInt(0), battery_level) /\ NumLe(battery_level, PyInt(100)))
         THEN Raise("ValueError")
    ELSE IF ~IsNumber(max_range_km) THEN Raise("TypeError")
    ELSE IF NumLe(max_range_km, PyInt(0)) THEN Raise("ValueError")
    ELSE Ok([b.obj EXCEPT !.d = [_battery_level |-> battery_level,
                                 _max_range_km |-> max_range_km] @@ @])

ElectricBike_battery_level(o) == o.d._battery_level
ElectricBike_max_range_km(o) == o.d._max_range_km

-----------------------------------------------------------------------------
(* Station                                                                 *)

\* A faulty variant: the latitude and longitude bounds are exclusive.
Station__init___exclusive_bounds(station_id, name, capacity, latitude, longitude) ==
    LET e == Entity__init__("Station", station_id, None) IN
    IF e.exc # "" THEN e
    ELSE IF ~IsNumber(capacity) THEN Raise("TypeError")
    ELSE IF NumLe(capacity, PyInt(0)) THEN Raise("ValueError")
    ELSE IF ~IsNumber(latitude) THEN Raise("TypeError")
    ELSE IF ~(NumLt(PyInt(-90), latitude) /\ NumLt(latitude, PyInt(90)))
         THEN Raise("ValueError")
    ELSE IF ~IsNumber(longitude) THEN Raise("TypeError")
    ELSE IF ~(NumLt(PyInt(-180), longitude) /\ NumLt(longitude, PyInt(180)))
         THEN Raise("ValueError")
    ELSE IF ~IsStr(name) \/ ~Truthy(Strip(name)) THEN Raise("ValueError")
    ELSE Ok([e.obj EXCEPT !.d = [_name |-> Strip(name), _capacity |-> capacity,
                                 _latitude |-> latitude, _longitude |-> longitude] @@ @])

Station__init__(station_id, name, capacity, latitude, longitude) ==
    LET e == Entity__init__("Station", station_id, None) IN
    IF e.exc # "" THEN e
    ELSE IF ~IsNumber(capacity) THEN Raise("TypeError")
    ELSE IF NumLe(capacity, PyInt(0)) THEN Raise("ValueError")
    ELSE IF ~IsNumber(latitude) THEN Raise("TypeError")
    ELSE IF ~(NumLe(PyInt(-90), latitude) /\ NumLe(latitude, PyInt(90)))
         THEN Raise("ValueError")
    ELSE IF ~IsNumber(longitude) THEN Raise("TypeError")
    ELSE IF ~(NumLe(PyInt(-180), longitude) /\ NumLe(longitude, PyInt(180)))
         THEN Raise("ValueError")
    ELSE IF ~IsStr(name) \/ ~Truthy(Strip(name)) THEN Raise("ValueError")
    ELSE Ok([e.obj EXCEPT !.d = [_name |-> Strip(name), _capacity |-> capacity,
                                 _latitude |-> latitude, _longitude |-> longitude] @@ @])

-----------------------------------------------------------------------------
(* User, CasualUser, MemberUser                                            *)

CASUAL == PyStr(<<"c", "a", "s", "u", "a", "l">>)
MEMBER == PyStr(<<"m", "e", "m", "b", "e", "r">>)
BASIC == PyStr(<<"b", "a", "s", "i", "c">>)
PREMIUM == PyStr(<<"p", "r", "e", "m", "i", "u", "m">>)

\* A faulty variant: the name is tested before it is stripped, so a name of
\* blanks passes and is stored empty.
User__init___unstripped_test(cls, user_id, name, email, user_type) ==
    LET e == Entity__init__(cls, user_id, None) IN
    IF e.exc # "" THEN e
    ELSE IF ~IsStr(name) \/ ~Truthy(name) THEN Raise("ValueError")
    ELSE IF ~IsStr(email) \/ ~Contains(email, "@") THEN Raise("ValueError")
    ELSE IF ~IsStr(user_type) \/ ~Truthy(Strip(user_type)) THEN Raise("ValueError")
    ELSE Ok([e.obj EXCEPT !.d = [_name |-> Strip(name), _email |-> Strip(email),
                                 _user_type |-> Strip(user_type)] @@ @])

User__init__(cls, user_id, name, email, user_type) ==
    LET e == Entity__init__(cls, user_id, None) IN
    IF e.exc # "" THEN e
    ELSE IF ~IsStr(name) \/ ~Truthy(Strip(name)) THEN Raise("ValueError")
    ELSE IF ~IsStr(email) \/ ~Contains(email, "@") THEN Raise("ValueError")
    ELSE IF ~IsStr(user_type) \/ ~Truthy(Strip(user_type)) THEN Raise("ValueError")
    ELSE Ok([e.obj EXCEPT !.d = [_name |-> Strip(name), _email |-> Strip(email),
                                 _user_type |-> Strip(user_type)] @@ @])

\* A faulty variant: the count is compared with 0 but its type is not tested.
CasualUser__init___untyped(user_id, name, email, day_pass_count) ==
    LET u == User__init__("CasualUser", user_id, name, email, CASUAL) IN
    IF u.exc # "" THEN u
    ELSE IF ~IsNumber(day_pass_count) THEN Raise("TypeError")
    ELSE IF NumLt(day_pass_count, PyInt(0)) THEN Raise("ValueError")
    ELSE Ok([u.obj EXCEPT !.d = [_day_pass_count |-> day_pass_count] @@ @])

CasualUser__init__(user_id, name, email, day_pass_count) ==
    LET u == User__init__("CasualUser", user_id, name, email, CASUAL) IN
    IF u.exc # "" THEN u
    ELSE IF ~IsInt(day_pass_count) \/ NumLt(day_pass_count, PyInt(0))
         THEN Raise("ValueError")
    ELSE Ok([u.obj EXCEPT !.d = [_day_pass_count |-> day_pass_count] @@ @])

\* Faulty variants: one stores the tier as given, one rejects an end equal
\* to the start.
MemberUser__init___tier_as_given(user_id, name, email, membership_start, membership_end, tier) ==
    LET u == User__init__("MemberUser", user_id, name, email, MEMBER) IN
    IF u.exc # "" THEN u
    ELSE IF ~IsStr(tier) \/ Lower(tier) \notin {BASIC, PREMIUM} THEN Raise("ValueError")
    ELSE IF Truthy(membership_start) /\ ~IsDateTime(membership_start)
         THEN Raise("ValueError")
    ELSE IF Truthy(membership_end) /\ ~IsDateTime(membership_end)
         THEN Raise("ValueError")
    ELSE IF Truthy(membership_start) /\ Truthy(membership_end)
            /\ membership_end.n < membership_start.n
         THEN Raise("ValueError")
    ELSE Ok([u.obj EXCEPT !.d = [_tier |-> tier,
                                 _membership_start |-> membership_start,
                                 _membership_end |-> membership_end] @@ @])

MemberUser__init___strict_order(user_id, name, email, membership_start, membership_end, tier) ==
    LET u == User__init__("MemberUser", user_id, name, email, MEMBER) IN
    IF u.exc # "" THEN u
    ELSE IF ~IsStr(tier) \/ Lower(tier) \notin {BASIC, PREMIUM} THEN Raise("ValueError")
    ELSE IF Truthy(membership_start) /\ ~IsDateTime(membership_start)
         THEN Raise("ValueError")
    ELSE IF Truthy(membership_end) /\ ~IsDateTime(membership_end)
         THEN Raise("ValueError")
    ELSE IF Truthy(membership_start) /\ Truthy(membership_end)
            /\ membership_end.n <= membership_start.n
         THEN Raise("ValueError")
    ELSE Ok([u.obj EXCEPT !.d = [_tier |-> Lower(tier),
                                 _membership_start |-> membership_start,
                                 _membership_end |-> membership_end] @@ @])

MemberUser__init__(user_id, name, email, membership_start, membership_end, tier) ==
    LET u == User__init__("MemberUser", user_id, name, email, MEMBER) IN
    IF u.exc # "" THEN u
    ELSE IF ~IsStr(tier) \/ Lower(tier) \notin {BASIC, PREMIUM} THEN Raise("ValueError")
    ELSE IF Truthy(membership_start) /\ ~IsDateTime(membership_start)
         THEN Raise("ValueError")
    ELSE IF Truthy(membership_end) /\ ~IsDateTime(membership_end)
         THEN Raise("ValueError")
    ELSE IF Truthy(membership_start) /\ Truthy(membership_end)
            /\ membership_end.n < membership_start.n
         THEN Raise("ValueError")
    ELSE Ok([u.obj EXCEPT !.d = [_tier |-> Lower(tier),
                                 _membership_start |-> membership_start,
                                 _membership_end |-> membership_end] @@ @])

-----------------------------------------------------------------------------
(* Trip: the constructor body is `pass`, so the instance gets no           *)
(* attribute; duration_minutes returns the constant 0.0.                   *)

Trip__init__(trip_id, user, bike, start_station, end_station, start_time, end_time, distance_km) ==
    Ok([cls |-> "Trip", d |-> NoDict])

Trip_duration_minutes(o) == PyFloat(0)

-----------------------------------------------------------------------------
(* MaintenanceRecord: the constructor body is `pass` as well.              *)

VALID_TYPES == {
    PyStr(<<"t", "i", "r", "e", "_", "r", "e", "p", "a", "i", "r">>),
    PyStr(<<"b", "r", "a", "k", "e", "_", "a", "d", "j", "u", "s", "t", "m", "e", "n", "t">>),
    PyStr(<<"b", "a", "t", "t", "e", "r", "y", "_", "r", "e", "p", "l", "a", "c", "e", "m", "e", "n", "t">>),
    PyStr(<<"c", "h", "a", "i", "n", "_", "l", "u", "b", "r", "i", "c", "a", "t", "i", "o", "n">>),
    PyStr(<<"g", "e", "n", "e", "r", "a", "l", "_", "i", "n", "s", "p", "e", "c", "t", "i", "o", "n">>)}

MaintenanceRecord__init__(record_id, bike, date, maintenance_type, cost, description) ==
    Ok([cls |-> "MaintenanceRecord", d |-> NoDict])

-----------------------------------------------------------------------------
(* The conversions the factories apply to the values of a record: int(),   *)
(* float(), str.lower() and datetime.fromisoformat().  Each yields an      *)
(* exception ("" when none) and a value.                                   *)

Val(v) == [exc |-> "", val |-> v]
Fail(e) == [exc |-> e, val |-> None]

Digits == <<"0", "1", "2", "3", "4", "5", "6", "7", "8", "9">>
IsDigit(c) == \E k \in DOMAIN Digits : Digits[k] = c
DigitValue(c) == (CHOOSE k \in DOMAIN Digits : Digits[k] = c) - 1
AllDigits(cs) == cs # <<>> /\ \A i \in DOMAIN cs : IsDigit(cs[i])

\* The number a sequence of decimal digits denotes.
RECURSIVE DecimalValue(_)
DecimalValue(cs) ==
    IF cs = <<>> THEN 0
    ELSE 10 * DecimalValue(SubSeq(cs, 1, Len(cs) - 1)) + DigitValue(cs[Len(cs)])

\* The text without its sign, and the factor the sign stands for.
Unsigned(cs) == IF cs # <<>> /\ cs[1] \in {"+", "-"} THEN Tail(cs) ELSE cs
SignOf(cs) == IF cs # <<>> /\ cs[1] = "-" THEN -1 ELSE 1

\* int(text): whitespace around, a sign, decimal digits.
ParseInt(cs) ==
    LET t == RStrip(LStrip(cs)) IN
    IF AllDigits(Unsigned(t))
    THEN Val(PyInt(SignOf(t) * DecimalValue(Unsigned(t))))
    ELSE Fail("ValueError")

\* int(v): an int is kept, a float loses its fraction (NaN has no integer
\* value), a text is parsed; anything else is a TypeError.
\* A faulty variant: a text is handed on as it is.
int_text_kept(v) ==
    IF IsStr(v) THEN Val(v)
    ELSE IF IsInt(v) THEN Val(v)
    ELSE IF IsNaN(v) THEN Fail("ValueError")
    ELSE IF v.t = "float" THEN Val(PyInt(v.n))
    ELSE Fail("TypeError")

int(v) ==
    IF IsStr(v) THEN ParseInt(v.s)
    ELSE IF IsInt(v) THEN Val(v)
    ELSE IF IsNaN(v) THEN Fail("ValueError")
    ELSE IF v.t = "float" THEN Val(PyInt(v.n))
    ELSE Fail("TypeError")

\* The position of the first "." of cs, or Len(cs) + 1 when it has none.
DotAt(cs) ==
    IF \E i \in DOMAIN cs : cs[i] = "."
    THEN CHOOSE i \in DOMAIN cs : cs[i] = "." /\ \A j \in 1..(i - 1) : cs[j] # "."
    ELSE Len(cs) + 1

\* float(text): whitespace around, a sign, then "nan" in any letter case or
\* decimal digits with an optional fraction.  The floats of the model are
\* whole, so the fraction is a run of zeros (texts with another fraction,
\* an exponent or an infinity are not among the inputs).
ParseFloat(cs) ==
    LET t == RStrip(LStrip(cs))
        u == Unsigned(t)
        whole == SubSeq(u, 1, DotAt(u) - 1)
        fraction == SubSeq(u, DotAt(u) + 1, Len(u))
    IN
    IF Lower(PyStr(u)).s = <<"n", "a", "n">> THEN Val(NaN)
    ELSE IF /\ \A i \in DOMAIN whole : IsDigit(whole[i])
            /\ \A i \in DOMAIN fraction : fraction[i] = "0"
            /\ whole # <<>> \/ fraction # <<>>
         THEN Val(PyFloat(SignOf(t) * DecimalValue(whole)))
    ELSE Fail("ValueError")

\* float(v)
float(v) ==
    IF IsStr(v) THEN ParseFloat(v.s)
    ELSE IF IsInt(v) THEN Val(PyFloat(v.n))
    ELSE IF v.t = "float" THEN Val(v)
    ELSE Fail("TypeError")

\* v.lower(): only a str has the method.
lower(v) == IF IsStr(v) THEN Val(Lower(v)) ELSE Fail("AttributeError")

\* The calendar: leap years, the days of a month, and the days from
\* 0001-01-01 to a date.
IsLeap(y) == y % 4 = 0 /\ (y % 100 # 0 \/ y % 400 = 0)
DaysInMonth(y, m) ==
    IF m = 2 THEN (IF IsLeap(y) THEN 29 ELSE 28)
    ELSE IF m \in {4, 6, 9, 11} THEN 30
    ELSE 31
RECURSIVE DaysBeforeMonth(_, _)
DaysBeforeMonth(y, m) ==
    IF m = 1 THEN 0 ELSE DaysBeforeMonth(y, m - 1) + DaysInMonth(y, m - 1)
DaysBeforeYear(y) ==
    365 * (y - 1) + ((y - 1) \div 4) - ((y - 1) \div 100) + ((y - 1) \div 400)
Ordinal(y, m, d) == DaysBeforeYear(y) + DaysBeforeMonth(y, m) + d

\* A datetime is the number of seconds since 2024-01-01T00:00:00.
DateTimeOf(y, m, d, hh, mm, ss) ==
    PyDateTime((Ordinal(y, m, d) - Ordinal(2024, 1, 1)) * 86400 + hh * 3600 + mm * 60 + ss)

\* datetime.fromisoformat(text) for the forms YYYY-MM-DD and
\* YYYY-MM-DD?HH:MM:SS (any one character between date and time); the
\* other ISO 8601 forms are not among the inputs.
fromisoformat(cs) ==
    LET dateOk == /\ Len(cs) >= 10
                  /\ AllDigits(SubSeq(cs, 1, 4)) /\ cs[5] = "-"
                  /\ AllDigits(SubSeq(cs, 6, 7)) /\ cs[8] = "-"
                  /\ AllDigits(SubSeq(cs, 9, 10))
        timeOk == /\ Len(cs) = 19
                  /\ AllDigits(SubSeq(cs, 12, 13)) /\ cs[14] = ":"
                  /\ AllDigits(SubSeq(cs, 15, 16)) /\ cs[17] = ":"
                  /\ AllDigits(SubSeq(cs, 18, 19))
        y == DecimalValue(SubSeq(cs, 1, 4))
        m == DecimalValue(SubSeq(cs, 6, 7))
        d == DecimalValue(SubSeq(cs, 9, 10))
        hh == IF Len(cs) = 10 THEN 0 ELSE DecimalValue(SubSeq(cs, 12, 13))
        mm == IF Len(cs) = 10 THEN 0 ELSE DecimalValue(SubSeq(cs, 15, 16))
        ss == IF Len(cs) = 10 THEN 0 ELSE DecimalValue(SubSeq(cs, 18, 19))
    IN
    IF ~dateOk \/ ~(Len(cs) = 10 \/ timeOk) THEN Fail("ValueError")
    ELSE IF y < 1 \/ m \notin 1..12 THEN Fail("ValueError")
    ELSE IF d \notin 1..DaysInMonth(y, m) THEN Fail("ValueError")
    ELSE IF hh > 23 \/ mm > 59 \/ ss > 59 THEN Fail("ValueError")
    ELSE Val(DateTimeOf(y, m, d, hh, mm, ss))

-----------------------------------------------------------------------------
(* The factories.  A record is a function from keys to values.             *)

\* data.get(key, default)
\* A faulty variant: a whole-number default grows with the bikes that exist.
Get_counting(data, key, default) ==
    IF key \in DOMAIN data THEN data[key]
    ELSE IF IsInt(default) THEN PyInt(default.n + Len(bikes))
    ELSE default

Get(data, key, default) == IF key \in DOMAIN data THEN data[key] ELSE default

\* repr(v) of a text without quotes or escapes, and of an integer.
RECURSIVE DecimalText(_)
DecimalText(n) ==
    IF n < 10 THEN <<Digits[n + 1]>>
    ELSE DecimalText(n \div 10) \o <<Digits[(n % 10) + 1]>>
SignedText(n) == IF n < 0 THEN <<"-">> \o DecimalText(-n) ELSE DecimalText(n)
TwoDigits(n) == IF n < 10 THEN <<"0">> \o DecimalText(n) ELSE DecimalText(n)

\* The date and the time of day of a datetime, from its seconds since
\* 2024-01-01T00:00:00.
DateParts(n) ==
    LET ordinal == Ordinal(2024, 1, 1) + (n \div 86400)
        y == CHOOSE year \in 2000..2050 :
                 DaysBeforeYear(year) < ordinal /\ ordinal <= DaysBeforeYear(year + 1)
        m == CHOOSE month \in 1..12 :
                 /\ DaysBeforeYear(y) + DaysBeforeMonth(y, month) < ordinal
                 /\ ordinal <= DaysBeforeYear(y) + DaysBeforeMonth(y, month) + DaysInMonth(y, month)
    IN [year |-> y, month |-> m, day |-> ordinal - DaysBeforeYear(y) - DaysBeforeMonth(y, m),
        hour |-> (n % 86400) \div 3600, minute |-> (n % 3600) \div 60, second |-> n % 60]

\* repr(v): a text in quotes, None, a number in decimal (a float with its
\* ".0", nan), a datetime as the call that makes it.
repr(v) ==
    IF IsStr(v) THEN <<"'">> \o v.s \o <<"'">>
    ELSE IF v = None THEN <<"N", "o", "n", "e">>
    ELSE IF IsNaN(v) THEN <<"n", "a", "n">>
    ELSE IF v.t = "float" THEN SignedText(v.n) \o <<".", "0">>
    ELSE IF v.t = "datetime"
    THEN LET p == DateParts(v.n) IN
         <<"d", "a", "t", "e", "t", "i", "m", "e", ".", "d", "a", "t", "e", "t", "i", "m", "e", "(">> \o DecimalText(p.year) \o <<",", " ">> \o DecimalText(p.month)
             \o <<",", " ">> \o DecimalText(p.day) \o <<",", " ">> \o DecimalText(p.hour)
             \o <<",", " ">> \o DecimalText(p.minute)
             \o (IF p.second = 0 THEN <<>> ELSE <<",", " ">> \o DecimalText(p.second)) \o <<")">>
    ELSE SignedText(v.n)

\* str(v), which an f-string puts for {v}: a text as it is, a datetime as
\* date and time, anything else as repr(v).
str(v) ==
    IF IsStr(v) THEN v.s
    ELSE IF v.t = "datetime"
    THEN LET p == DateParts(v.n) IN
         DecimalText(p.year) \o <<"-">> \o TwoDigits(p.month) \o <<"-">> \o TwoDigits(p.day)
             \o <<" ">> \o TwoDigits(p.hour) \o <<":">> \o TwoDigits(p.minute)
             \o <<":">> \o TwoDigits(p.second)
    ELSE repr(v)

\* raise ValueError(message)
RaiseMsg(e, msg) == [exc |-> e, obj |-> NoObj, msg |-> msg]
MsgOf(r) == IF "msg" \in DOMAIN r THEN r.msg ELSE <<>>

UNKNOWN_BIKE_TYPE == <<"U", "n", "k", "n", "o", "w", "n", " ", "b", "i", "k", "e", "_", "t", "y", "p", "e", ":", " ">>
UNKNOWN_USER_TYPE == <<"U", "n", "k", "n", "o", "w", "n", " ", "u", "s", "e", "r", "_", "t", "y", "p", "e", ":", " ">>

\* A faulty variant: the tag is compared as it is written.
create_bike_case_sensitive(data) ==
    LET tag == lower(Get(data, "bike_type", PyStr(<<>>))) IN
    IF tag.exc # "" THEN Raise(tag.exc)
    ELSE IF Get(data, "bike_type", PyStr(<<>>)) = CLASSIC
    THEN IF "bike_id" \notin DOMAIN data THEN Raise("KeyError")
         ELSE LET gear_count == int(Get(data, "gear_count", PyInt(7))) IN
              IF gear_count.exc # "" THEN Raise(gear_count.exc)
              ELSE ClassicBike__init__(data.bike_id, gear_count.val, AVAILABLE)
    ELSE IF Get(data, "bike_type", PyStr(<<>>)) = ELECTRIC
    THEN IF "bike_id" \notin DOMAIN data THEN Raise("KeyError")
         ELSE LET battery_level == float(Get(data, "battery_level", PyFloat(100)))
                  max_range_km == float(Get(data, "max_range_km", PyFloat(50)))
              IN
              IF battery_level.exc # "" THEN Raise(battery_level.exc)
              ELSE IF max_range_km.exc # "" THEN Raise(max_range_km.exc)
              ELSE ElectricBike__init__(data.bike_id, battery_level.val,
                                        max_range_km.val, AVAILABLE)
    ELSE RaiseMsg("ValueError", UNKNOWN_BIKE_TYPE \o repr(tag.val))

create_bike(data) ==
    LET tag == lower(Get(data, "bike_type", PyStr(<<>>))) IN
    IF tag.exc # "" THEN Raise(tag.exc)
    ELSE IF tag.val = CLASSIC
    THEN IF "bike_id" \notin DOMAIN data THEN Raise("KeyError")
         ELSE LET gear_count == int(Get(data, "gear_count", PyInt(7))) IN
              IF gear_count.exc # "" THEN Raise(gear_count.exc)
              ELSE ClassicBike__init__(data.bike_id, gear_count.val, AVAILABLE)
    ELSE IF tag.val = ELECTRIC
    THEN IF "bike_id" \notin DOMAIN data THEN Raise("KeyError")
         ELSE LET battery_level == float(Get(data, "battery_level", PyFloat(100)))
                  max_range_km == float(Get(data, "max_range_km", PyFloat(50)))
              IN
              IF battery_level.exc # "" THEN Raise(battery_level.exc)
              ELSE IF max_range_km.exc # "" THEN Raise(max_range_km.exc)
              ELSE ElectricBike__init__(data.bike_id, battery_level.val,
                                        max_range_km.val, AVAILABLE)
    ELSE RaiseMsg("ValueError", UNKNOWN_BIKE_TYPE \o repr(tag.val))

\* A faulty variant: the dates are passed on as they are in the record.
create_user_dates_unparsed(data) ==
    LET tag == lower(Get(data, "user_type", PyStr(<<>>))) IN
    IF tag.exc # "" THEN Raise(tag.exc)
    ELSE IF tag.val = CASUAL
    THEN IF {"user_id", "name", "email"} \ DOMAIN data # {} THEN Raise("KeyError")
         ELSE LET day_pass_count == int(Get(data, "day_pass_count", PyInt(0))) IN
              IF day_pass_count.exc # "" THEN Raise(day_pass_count.exc)
              ELSE CasualUser__init__(data.user_id, data.name, data.email,
                                      day_pass_count.val)
    ELSE IF tag.val = MEMBER
    THEN IF {"user_id", "name", "email"} \ DOMAIN data # {} THEN Raise("KeyError")
         ELSE MemberUser__init__(data.user_id, data.name, data.email,
                                 Get(data, "membership_start", None),
                                 Get(data, "membership_end", None),
                                 Get(data, "tier", BASIC))
    ELSE RaiseMsg("ValueError", UNKNOWN_USER_TYPE \o repr(tag.val))

\* The date field of a record as create_user passes it on: a text is parsed,
\* any other value and an absent field (None) are passed as they are.
DateField(data, key) ==
    LET v == Get(data, key, None) IN
    IF IsStr(v) THEN fromisoformat(v.s) ELSE Val(v)

\* A faulty variant: a record of unknown type makes a casual user.
create_user_default_casual(data) ==
    LET tag == lower(Get(data, "user_type", PyStr(<<>>))) IN
    IF tag.exc # "" THEN Raise(tag.exc)
    ELSE IF tag.val = CASUAL
    THEN IF {"user_id", "name", "email"} \ DOMAIN data # {} THEN Raise("KeyError")
         ELSE LET day_pass_count == int(Get(data, "day_pass_count", PyInt(0))) IN
              IF day_pass_count.exc # "" THEN Raise(day_pass_count.exc)
              ELSE CasualUser__init__(data.user_id, data.name, data.email,
                                      day_pass_count.val)
    ELSE IF tag.val = MEMBER
    THEN LET start == DateField(data, "membership_start")
             end == DateField(data, "membership_end")
         IN
         IF start.exc # "" THEN Raise(start.exc)
         ELSE IF end.exc # "" THEN Raise(end.exc)
         ELSE IF {"user_id", "name", "email"} \ DOMAIN data # {} THEN Raise("KeyError")
         ELSE MemberUser__init__(data.user_id, data.name, data.email, start.val,
                                 end.val, Get(data, "tier", BASIC))
    ELSE IF {"user_id", "name", "email"} \ DOMAIN data # {} THEN Raise("KeyError")
    ELSE CasualUser__init__(data.user_id, data.name, data.email, PyInt(0))

create_user(data) ==
    LET tag == lower(Get(data, "user_type", PyStr(<<>>))) IN
    IF tag.exc # "" THEN Raise(tag.exc)
    ELSE IF tag.val = CASUAL
    THEN IF {"user_id", "name", "email"} \ DOMAIN data # {} THEN Raise("KeyError")
         ELSE LET day_pass_count == int(Get(data, "day_pass_count", PyInt(0))) IN
              IF day_pass_count.exc # "" THEN Raise(day_pass_count.exc)
              ELSE CasualUser__init__(data.user_id, data.name, data.email,
                                      day_pass_count.val)
    ELSE IF tag.val = MEMBER
    THEN LET start == DateField(data, "membership_start")
             end == DateField(data, "membership_end")
         IN
         IF start.exc # "" THEN Raise(start.exc)
         ELSE IF end.exc # "" THEN Raise(end.exc)
         ELSE IF {"user_id", "name", "email"} \ DOMAIN data # {} THEN Raise("KeyError")
         ELSE MemberUser__init__(data.user_id, data.name, data.email, start.val,
                                 end.val, Get(data, "tier", BASIC))
    ELSE RaiseMsg("ValueError", UNKNOWN_USER_TYPE \o repr(tag.val))

-----------------------------------------------------------------------------
(* The state after import: no object exists yet.                           *)

\* The record of a call: the operation, the exception it raised ("" when
\* none), the heap index of the object it made or acted on, its arguments,
\* and for an assignment the heap of bikes before the call.
Called(op, exc, ref, args, pre) ==
    [op |-> op, exc |-> exc, ref |-> ref, args |-> args, pre |-> pre]

Init ==
    /\ bikes = <<>>
    /\ born = <<>>
    /\ stations = <<>>
    /\ users = <<>>
    /\ trips = <<>>
    /\ tripArgs = <<>>
    /\ records = <<>>
    /\ recordArgs = <<>>
    /\ now = 0
    /\ last = Called("", "", 0, <<>>, <<>>)
    /\ log = <<>>

\* The clock moves on between two calls.
Tick ==
    /\ now < MaxTime
    /\ now' = now + 1
    /\ last' = Called("tick", "", 0, <<>>, <<>>)
    /\ UNCHANGED <<bikes, born, stations, users, trips, tripArgs, records, recordArgs, log>>

\* A call of a bike constructor with outcome r: on success the new object
\* joins the heap, on an exception nothing is left behind.
BikeConstructed(op, r, args) ==
    /\ Len(bikes) < MaxBikes
    /\ IF r.exc = ""
       THEN /\ bikes' = Append(bikes, r.obj)
            /\ born' = Append(born, r.obj)
            /\ last' = Called(op, "", Len(bikes) + 1, args, <<>>)
       ELSE /\ UNCHANGED <<bikes, born>>
            /\ last' = Called(op, r.exc, 0, args, <<>>)
    /\ UNCHANGED <<stations, users, trips, tripArgs, records, recordArgs, now, log>>

\* Bike(bike_id, bike_type, status)
NewBike(calls) ==
    \E a \in calls :
        BikeConstructed("Bike", Bike__init__("Bike", a[1], a[2], a[3]), a)

\* ClassicBike(bike_id, gear_count, status)
NewClassicBike(calls) ==
    \E a \in calls :
        BikeConstructed("ClassicBike", ClassicBike__init__(a[1], a[2], a[3]), a)

\* ElectricBike(bike_id, battery_level, max_range_km, status)
NewElectricBike(calls) ==
    \E a \in calls :
        BikeConstructed("ElectricBike", ElectricBike__init__(a[1], a[2], a[3], a[4]), a)

\* bike.<name> = value on each bike i, for each property the bike's class has.
SetAttr(names, values) ==
    \E i \in 1..Len(bikes), name \in names, value \in values :
        LET r == Property_set(bikes[i], name, value) IN
        /\ name \in ReadOnlyProperties(bikes[i]) \cup {"status"}
        /\ bikes' = [bikes EXCEPT ![i] = r.obj]
        /\ last' = Called("set_" \o name, r.exc, i, <<value>>, bikes)
        /\ UNCHANGED <<born, stations, users, trips, tripArgs, records, recordArgs, now, log>>

\* Station(station_id, name, capacity, latitude, longitude)
NewStation(calls) ==
    \E a \in calls :
        LET r == Station__init__(a[1], a[2], a[3], a[4], a[5]) IN
        /\ Len(stations) < MaxStations
        /\ IF r.exc = ""
           THEN /\ stations' = Append(stations, r.obj)
                /\ last' = Called("Station", "", Len(stations) + 1, a, <<>>)
           ELSE /\ UNCHANGED stations
                /\ last' = Called("Station", r.exc, 0, a, <<>>)
        /\ UNCHANGED <<bikes, born, users, trips, tripArgs, records, recordArgs, now, log>>

\* An argument the caller leaves out, and the value the parameter then
\* takes: its default.
NotGiven == [t |-> "notgiven", s |-> <<>>, n |-> 0]
Default(v, d) == IF v = NotGiven THEN d ELSE v

\* A call of a user constructor with outcome r.
UserConstructed(op, r, args) ==
    /\ Len(users) < MaxUsers
    /\ IF r.exc = ""
       THEN /\ users' = Append(users, r.obj)
            /\ last' = Called(op, "", Len(users) + 1, args, <<>>)
       ELSE /\ UNCHANGED users
            /\ last' = Called(op, r.exc, 0, args, <<>>)
    /\ UNCHANGED <<bikes, born, stations, trips, tripArgs, records, recordArgs, now, log>>

\* User(user_id, name, email, user_type)
NewUser(calls) ==
    \E a \in calls :
        UserConstructed("User", User__init__("User", a[1], a[2], a[3], a[4]), a)

\* CasualUser(user_id, name, email, day_pass_count=0)
NewCasualUser(calls) ==
    \E a \in calls :
        UserConstructed("CasualUser",
                        CasualUser__init__(a[1], a[2], a[3], Default(a[4], PyInt(0))), a)

\* MemberUser(user_id, name, email, membership_start=None,
\*            membership_end=None, tier="basic")
NewMemberUser(calls) ==
    \E a \in calls :
        UserConstructed("MemberUser",
                        MemberUser__init__(a[1], a[2], a[3], Default(a[4], None),
                                           Default(a[5], None), Default(a[6], BASIC)), a)

\* Trip(trip_id, user, bike, start_station, end_station, start_time,
\*      end_time, distance_km) on objects that exist.
NewTrip(calls) ==
    \E a \in calls :
        LET r == Trip__init__(a[1], a[2], a[3], a[4], a[5], a[6], a[7], a[8]) IN
        /\ Len(trips) < MaxTrips
        /\ IF r.exc = ""
           THEN /\ trips' = Append(trips, r.obj)
                /\ tripArgs' = Append(tripArgs, a)
                /\ last' = Called("Trip", "", Len(trips) + 1, a, <<>>)
           ELSE /\ UNCHANGED <<trips, tripArgs>>
                /\ last' = Called("Trip", r.exc, 0, a, <<>>)
        /\ UNCHANGED <<bikes, born, stations, users, records, recordArgs, now, log>>

\* MaintenanceRecord(record_id, bike, date, maintenance_type, cost, description)
NewMaintenanceRecord(calls) ==
    \E a \in calls :
        LET r == MaintenanceRecord__init__(a[1], a[2], a[3], a[4], a[5], a[6]) IN
        /\ Len(records) < MaxRecords
        /\ IF r.exc = ""
           THEN /\ records' = Append(records, r.obj)
                /\ recordArgs' = Append(recordArgs, a)
                /\ last' = Called("MaintenanceRecord", "", Len(records) + 1, a, <<>>)
           ELSE /\ UNCHANGED <<records, recordArgs>>
                /\ last' = Called("MaintenanceRecord", r.exc, 0, a, <<>>)
        /\ UNCHANGED <<bikes, born, stations, users, trips, tripArgs, now, log>>

\* A call of a factory on the record data with outcome r: the entity it
\* returns joins the heap of its kind, an exception leaves nothing behind;
\* the call, its time and its outcome are logged.
FactoryCalled(op, data, r) ==
    /\ Len(log) < MaxCalls
    /\ log' = Append(log, [op |-> op, data |-> data, exc |-> r.exc, msg |-> MsgOf(r),
                           obj |-> r.obj, at |-> now])
    /\ IF r.exc = "" /\ op = "create_bike"
       THEN /\ bikes' = Append(bikes, r.obj)
            /\ born' = Append(born, r.obj)
            /\ last' = Called(op, "", Len(bikes) + 1, <<data>>, <<>>)
            /\ UNCHANGED users
       ELSE IF r.exc = ""
       THEN /\ users' = Append(users, r.obj)
            /\ last' = Called(op, "", Len(users) + 1, <<data>>, <<>>)
            /\ UNCHANGED <<bikes, born>>
       ELSE /\ last' = Called(op, r.exc, 0, <<data>>, <<>>)
            /\ UNCHANGED <<bikes, born, users>>
    /\ UNCHANGED <<stations, trips, tripArgs, records, recordArgs, now>>

\* create_bike(data)
CreateBike(recs) ==
    \E data \in recs : FactoryCalled("create_bike", data, create_bike(data))

\* create_user(data)
CreateUser(recs) ==
    \E data \in recs : FactoryCalled("create_user", data, create_user(data))

-----------------------------------------------------------------------------
(* Inputs: the calls of an operation are a valid call and every call that  *)
(* differs from it in one argument.                                        *)

Calls(base, alts) ==
    {base} \cup UNION {{[base EXCEPT ![i] = v] : v \in alts[i]} : i \in DOMAIN base}

BK1 == PyStr(<<"B", "K", "1">>)
EB1 == PyStr(<<"E", "B", "1">>)
EMPTY == PyStr(<<>>)
BROKEN == PyStr(<<"b", "r", "o", "k", "e", "n">>)
SCOOTER == PyStr(<<"s", "c", "o", "o", "t", "e", "r">>)

BadIds == {EMPTY, PyInt(123), None}

BikeCalls ==
    Calls(<<BK1, CLASSIC, AVAILABLE>>, <<BadIds, {ELECTRIC, SCOOTER}, {IN_USE, BROKEN}>>)
ClassicBikeCalls ==
    Calls(<<BK1, PyInt(7), AVAILABLE>>,
          <<BadIds, {PyInt(-3), PyInt(0), PyInt(1), BK1}, {IN_USE, BROKEN}>>)
ElectricBikeCalls ==
    Calls(<<EB1, PyFloat(100), PyFloat(50), AVAILABLE>>,
          <<BadIds, {PyFloat(-5), PyFloat(0), PyFloat(150), NaN},
            {PyFloat(-1), PyFloat(0), NaN}, {IN_USE, BROKEN}>>)

-----------------------------------------------------------------------------
(* Bikes and their status: the three constructors and every assignment to  *)
(* status.                                                                 *)

ClassicBikeBase == <<BK1, PyInt(7), AVAILABLE>>
ElectricBikeBase == <<EB1, PyFloat(100), PyFloat(50), AVAILABLE>>

NextBike ==
    \/ NewBike(BikeCalls)
    \/ NewClassicBike(Calls(ClassicBikeBase, <<{}, {}, {BROKEN}>>))
    \/ NewElectricBike(Calls(ElectricBikeBase, <<{}, {}, {}, {BROKEN}>>))
    \/ SetAttr({"status"}, VALID_STATUSES \cup {BROKEN, EMPTY})

SpecBike == Init /\ [][NextBike]_vars

-----------------------------------------------------------------------------
(* Bikes over time: constructions at different times, assignments to       *)
(* status and to every other property.                                     *)

NextFrame ==
    \/ NewClassicBike({ClassicBikeBase})
    \/ NewElectricBike({ElectricBikeBase})
    \/ SetAttr({"status"}, VALID_STATUSES \cup {BROKEN})
    \/ SetAttr({"id", "created_at", "bike_type", "gear_count", "battery_level",
                "max_range_km"}, {BK1})
    \/ Tick

SpecFrame == Init /\ [][NextFrame]_vars

-----------------------------------------------------------------------------
(* The fields of ClassicBike and ElectricBike.                             *)

NextFields ==
    \/ NewClassicBike(ClassicBikeCalls)
    \/ NewElectricBike(ElectricBikeCalls)

SpecFields == Init /\ [][NextFields]_vars

-----------------------------------------------------------------------------
(* Entities and their ids: every constructor, with valid and invalid ids.  *)

BLANK == PyStr(<<" ">>)
ST1 == PyStr(<<"S", "T", "1">>)
U1 == PyStr(<<"U", "1">>)
ALICE == PyStr(<<"A", "l", "i", "c", "e">>)
ALICE_MAIL == PyStr(<<"a", "@", "x">>)
CENTRAL == PyStr(<<"C", "e", "n", "t", "r", "a", "l">>)

BikeBase == <<BK1, CLASSIC, AVAILABLE>>
StationBase == <<ST1, CENTRAL, PyInt(10), PyFloat(48), PyFloat(9)>>
CasualUserBase == <<U1, ALICE, ALICE_MAIL, PyInt(0)>>
MemberUserBase == <<U1, ALICE, ALICE_MAIL, None, None, BASIC>>

Ids == BadIds \cup {BLANK}

NextEntity ==
    \/ NewBike(Calls(BikeBase, <<Ids, {}, {}>>))
    \/ NewClassicBike(Calls(ClassicBikeBase, <<Ids, {}, {}>>))
    \/ NewElectricBike(Calls(ElectricBikeBase, <<Ids, {}, {}, {}>>))
    \/ NewStation(Calls(StationBase, <<Ids, {}, {}, {}, {}>>))
    \/ NewCasualUser(Calls(CasualUserBase, <<Ids, {}, {}, {}>>))
    \/ NewMemberUser(Calls(MemberUserBase, <<Ids, {}, {}, {}, {}, {}>>))

SpecEntity == Init /\ [][NextEntity]_vars

-----------------------------------------------------------------------------
(* Trips: a user, bikes and a station are made, then trips between them.   *)

TR1 == PyStr(<<"T", "R", "1">>)
MR1 == PyStr(<<"M", "R", "1">>)
NOT_A_BIKE == PyStr(<<"n", "o", "t", "_", "a", "_", "b", "i", "k", "e">>)
TIRE_REPAIR == PyStr(<<"t", "i", "r", "e", "_", "r", "e", "p", "a", "i", "r">>)
ENGINE_REPAIR == PyStr(<<"e", "n", "g", "i", "n", "e", "_", "r", "e", "p", "a", "i", "r">>)

\* Times of day in seconds: 10:00, 10:30, 10:45:30 and 09:00.
T1000 == PyDateTime(36000)
T1030 == PyDateTime(37800)
T104530 == PyDateTime(38730)
T0900 == PyDateTime(32400)

BikeRefs == {Ref(bikes[i].cls, i) : i \in 1..Len(bikes)}
UserRefs == {Ref(users[i].cls, i) : i \in 1..Len(users)}
StationRefs == {Ref("Station", i) : i \in 1..Len(stations)}

\* Trips from 10:00 to 10:30 over 5 km, and the same with another end time
\* or another distance.
TripCalls ==
    UNION {Calls(<<TR1, u, b, s, s, T1000, T1030, PyFloat(5)>>,
                 <<{}, {}, {}, {}, {}, {}, {T1000, T104530, T0900},
                   {PyFloat(0), PyFloat(-1)}>>) :
           u \in UserRefs, b \in BikeRefs, s \in StationRefs}

NextTrip ==
    \/ NewClassicBike({ClassicBikeBase})
    \/ NewElectricBike({ElectricBikeBase})
    \/ NewStation({StationBase})
    \/ NewCasualUser({CasualUserBase})
    \/ NewTrip(TripCalls)

SpecTrip == Init /\ [][NextTrip]_vars

-----------------------------------------------------------------------------
(* Maintenance records of bikes.                                           *)

\* A tire repair costing 25, and the same with another bike argument,
\* another maintenance type or another cost.
MaintenanceRecordCalls ==
    UNION {Calls(<<MR1, b, T1000, TIRE_REPAIR, PyFloat(25), EMPTY>>,
                 <<{}, {NOT_A_BIKE, None}, {}, {ENGINE_REPAIR},
                   {PyFloat(0), PyFloat(-10)}, {}>>) :
           b \in BikeRefs}

NextMaintenance ==
    \/ NewClassicBike({ClassicBikeBase})
    \/ NewElectricBike({ElectricBikeBase})
    \/ SetAttr({"status"}, {IN_USE, MAINTENANCE})
    \/ NewMaintenanceRecord(MaintenanceRecordCalls)

SpecMaintenance == Init /\ [][NextMaintenance]_vars

-----------------------------------------------------------------------------
(* Trips and maintenance records of bikes whose status changes.            *)

NextShared ==
    \/ NewClassicBike({ClassicBikeBase})
    \/ NewStation({StationBase})
    \/ NewCasualUser({CasualUserBase})
    \/ NewTrip({<<TR1, u, b, s, s, T1000, T1030, PyFloat(5)>> :
                   u \in UserRefs, b \in BikeRefs, s \in StationRefs})
    \/ NewMaintenanceRecord({<<MR1, b, T1000, TIRE_REPAIR, PyFloat(25), EMPTY>> :
                                b \in BikeRefs})
    \/ SetAttr({"status"}, VALID_STATUSES)

SpecShared == Init /\ [][NextShared]_vars

-----------------------------------------------------------------------------
(* Stations: one id, and every combination of names, capacities,           *)
(* latitudes and longitudes inside, on and outside the limits.             *)

PADDED == PyStr(<<" ", "O", "l", "d", " ", "T", "o", "w", "n", "\t">>)
SPACES == PyStr(<<" ", " ", " ">>)

StationNames == {CENTRAL, PADDED, SPACES, EMPTY}
StationCapacities == {PyInt(10), PyInt(1), PyInt(0), PyInt(-5)}
Latitudes == {PyFloat(48), PyFloat(-90), PyFloat(90), PyFloat(-91), NaN}
Longitudes == {PyFloat(9), PyFloat(-180), PyFloat(180), PyFloat(250)}

StationCalls ==
    {<<ST1, n, c, la, lo>> :
        n \in StationNames, c \in StationCapacities, la \in Latitudes, lo \in Longitudes}

NextStation ==
    \/ NewStation(StationCalls)

SpecStation == Init /\ [][NextStation]_vars

-----------------------------------------------------------------------------
(* Users: the base class with every combination of names, emails and user  *)
(* types, and the two subclasses with every name and email.                *)

NO_AT == PyStr(<<"a", "x">>)
AT_ONLY == PyStr(<<" ", "@", " ">>)

UserNames == {ALICE, PADDED, SPACES, EMPTY, None}
Emails == {ALICE_MAIL, NO_AT, AT_ONLY, EMPTY}
UserTypes == {CASUAL, MEMBER, SPACES, EMPTY}

UserCalls ==
    {<<U1, n, e, t>> : n \in UserNames, e \in Emails, t \in UserTypes}

NextUser ==
    \/ NewUser(UserCalls)
    \/ NewCasualUser({<<U1, n, e, PyInt(0)>> : n \in UserNames, e \in Emails})
    \/ NewMemberUser({<<U1, n, e, None, None, BASIC>> : n \in UserNames, e \in Emails})

SpecUser == Init /\ [][NextUser]_vars

-----------------------------------------------------------------------------
(* Casual users: every name and email with every day pass count, given as  *)
(* an integer, as another kind of value, or not given.                     *)

THREE_TEXT == PyStr(<<"3">>)

DayPassCounts ==
    {PyInt(0), PyInt(3), PyInt(-1), PyFloat(2), NaN, THREE_TEXT, None, NotGiven}

CasualUserCalls ==
    {<<U1, n, e, c>> : n \in UserNames, e \in Emails, c \in DayPassCounts}

NextCasual ==
    \/ NewCasualUser(CasualUserCalls)

SpecCasual == Init /\ [][NextCasual]_vars

-----------------------------------------------------------------------------
(* Member users: every combination of a start, an end and a tier, each     *)
(* given or not.                                                           *)

Premium == PyStr(<<"P", "r", "e", "m", "i", "u", "m">>)
BASIC_UPPER == PyStr(<<"B", "A", "S", "I", "C">>)
BASIC_PADDED == PyStr(<<" ", "b", "a", "s", "i", "c">>)
GOLD == PyStr(<<"g", "o", "l", "d">>)

\* Datetimes are seconds since 2024-01-01T00:00:00: 1 January, 1 May and
\* 1 June 2024.
JAN1 == PyDateTime(0)
MAY1 == PyDateTime(10454400)
JUN1 == PyDateTime(13132800)

Tiers == {BASIC, PREMIUM, Premium, BASIC_UPPER, BASIC_PADDED, GOLD, EMPTY, NotGiven}
Starts == {None, NotGiven, JAN1, JUN1}
Ends == {None, NotGiven, JAN1, MAY1, JUN1}

MemberUserCalls ==
    {<<U1, ALICE, ALICE_MAIL, b, e, t>> : b \in Starts, e \in Ends, t \in Tiers}

NextMember ==
    \/ NewMemberUser(MemberUserCalls)

SpecMember == Init /\ [][NextMember]_vars

-----------------------------------------------------------------------------
(* Member users whose dates are timestamps, absent, or values of another   *)
(* type: empty and zero-like ones, a text and a number.                    *)

TEXT_2024 == PyStr(<<"2", "0", "2", "4">>)

NonTimestamps == {EMPTY, PyInt(0), PyFloat(0), TEXT_2024, PyInt(5)}

MemberDateCalls ==
    {<<U1, ALICE, ALICE_MAIL, b, e, t>> :
        b \in {None, NotGiven, JAN1} \cup NonTimestamps,
        e \in {None, NotGiven, JUN1} \cup NonTimestamps,
        t \in {BASIC, PREMIUM}}

NextMemberDates ==
    \/ NewMemberUser(MemberDateCalls)

SpecMemberDates == Init /\ [][NextMemberDates]_vars

-----------------------------------------------------------------------------
(* Records of bikes: a bike_id, a bike_type in some letter case (or none,  *)
(* or an unknown one) and each numeric field absent or given.              *)

Classic == PyStr(<<"C", "l", "a", "s", "s", "i", "c">>)
ELECTRIC_UPPER == PyStr(<<"E", "L", "E", "C", "T", "R", "I", "C">>)
TEXT_21 == PyStr(<<"2", "1">>)

\* The records that extend base by the field key, for every value of
\* values, and base itself when absent is TRUE.
WithField(base, key, values, absent) ==
    {[k \in DOMAIN base \cup {key} |-> IF k = key THEN v ELSE base[k]] : v \in values}
        \cup (IF absent THEN {base} ELSE {})

ClassicTags == {CLASSIC, Classic}
ElectricTags == {ELECTRIC, ELECTRIC_UPPER}

Tagged(base, key, tags) == WithField(base, key, tags, FALSE)

ClassicRecords ==
    UNION {WithField(r, "gear_count", {PyInt(21), TEXT_21}, TRUE) :
             r \in Tagged([bike_id |-> BK1], "bike_type", ClassicTags)}

ElectricRecords ==
    UNION {WithField(r2, "max_range_km", {PyFloat(55)}, TRUE) :
             r2 \in UNION {WithField(r1, "battery_level", {PyFloat(80), PyInt(0)}, TRUE) :
                              r1 \in Tagged([bike_id |-> EB1], "bike_type", ElectricTags)}}

\* Records without a bike_type or with an unknown one.
UntaggedBikes == WithField([bike_id |-> BK1], "bike_type", {SCOOTER}, TRUE)

BikeRecords == ClassicRecords \cup ElectricRecords \cup UntaggedBikes

NextCreateBike ==
    \/ CreateBike(BikeRecords)

SpecCreateBike == Init /\ [][NextCreateBike]_vars

-----------------------------------------------------------------------------
(* Records of users: user_id, name, email, a user_type in some letter case *)
(* (or none, or an unknown one) and each optional field absent or given.   *)

Casual == PyStr(<<"C", "a", "s", "u", "a", "l">>)
Member == PyStr(<<"M", "e", "m", "b", "e", "r">>)
ADMIN == PyStr(<<"a", "d", "m", "i", "n">>)
TEXT_5 == PyStr(<<"5">>)

\* Dates as texts: 1 January 2024, 1 June 2024 at midnight, 31 December
\* 2023, and a text that is no date.
TEXT_JAN1 == PyStr(<<"2", "0", "2", "4", "-", "0", "1", "-", "0", "1">>)
TEXT_JUN1 == PyStr(<<"2", "0", "2", "4", "-", "0", "6", "-", "0", "1", "T", "0", "0", ":", "0", "0", ":", "0", "0">>)
TEXT_DEC31 == PyStr(<<"2", "0", "2", "3", "-", "1", "2", "-", "3", "1">>)
TEXT_JUNE == PyStr(<<"J", "u", "n", "e">>)
DEC31 == PyDateTime(-86400)

UserRecord == [user_id |-> U1, name |-> ALICE, email |-> ALICE_MAIL]

CasualRecords ==
    UNION {WithField(r, "day_pass_count", {PyInt(3), TEXT_5}, TRUE) :
             r \in Tagged(UserRecord, "user_type", {CASUAL, Casual})}

MemberRecords ==
    UNION {WithField(r3, "membership_end", {TEXT_JUN1, TEXT_DEC31, JUN1, TEXT_JUNE}, TRUE) :
             r3 \in UNION {WithField(r2, "membership_start", {TEXT_JAN1, JAN1}, TRUE) :
                              r2 \in UNION {WithField(r1, "tier", {Premium}, TRUE) :
                                               r1 \in Tagged(UserRecord, "user_type",
                                                              {MEMBER, Member})}}}

\* Records without a user_type or with an unknown one.
UntaggedUsers == WithField(UserRecord, "user_type", {ADMIN}, TRUE)

UserRecords == CasualRecords \cup MemberRecords \cup UntaggedUsers

NextCreateUser ==
    \/ CreateUser(UserRecords)

SpecCreateUser == Init /\ [][NextCreateUser]_vars

-----------------------------------------------------------------------------
(* Records with every kind of type tag: known, unknown in either letter    *)
(* case, empty, padded with a blank, or none.                              *)

Scooter == PyStr(<<"S", "c", "o", "o", "t", "e", "r">>)
CLASSIC_PADDED == PyStr(<<" ", "c", "l", "a", "s", "s", "i", "c">>)
CASUAL_PADDED == PyStr(<<"c", "a", "s", "u", "a", "l", " ">>)

DispatchBikes ==
    WithField([bike_id |-> BK1], "bike_type",
              {CLASSIC, ELECTRIC_UPPER, SCOOTER, Scooter, EMPTY, CLASSIC_PADDED}, TRUE)

DispatchUsers ==
    WithField(UserRecord, "user_type",
              {CASUAL, Member, ADMIN, MAINTENANCE, EMPTY, CASUAL_PADDED}, TRUE)

NextDispatch ==
    \/ CreateBike(DispatchBikes)
    \/ CreateUser(DispatchUsers)

SpecDispatch == Init /\ [][NextDispatch]_vars

-----------------------------------------------------------------------------
(* Records whose numeric fields hold a number or the text of that number,  *)
(* as a CSV row does.                                                      *)

\* str() of a whole number and of a float with a whole value.
IntText(n) == IF n < 0 THEN <<"-">> \o DecimalText(-n) ELSE DecimalText(n)
TextOf(v) == PyStr(IF IsInt(v) THEN IntText(v.n) ELSE IntText(v.n) \o <<".", "0">>)

GearCounts == {PyInt(7), PyInt(21), PyInt(0), PyInt(-1)}
BatteryLevels == {PyFloat(80), PyInt(80), PyInt(150), PyFloat(100), PyFloat(-5)}
MaxRanges == {PyFloat(55), PyInt(55), PyFloat(0)}
DayPassCounts19 == {PyInt(3), PyInt(0), PyInt(-1)}

AsNumberOrText(numbers) == numbers \cup {TextOf(n) : n \in numbers}

CoercionBikes ==
    LET classic == [bike_id |-> BK1, bike_type |-> CLASSIC]
        electric == [bike_id |-> EB1, bike_type |-> ELECTRIC]
        charged == WithField(electric, "battery_level", AsNumberOrText({PyFloat(80)}), FALSE)
    IN
    WithField(classic, "gear_count", AsNumberOrText(GearCounts), FALSE)
        \cup WithField(electric, "battery_level", AsNumberOrText(BatteryLevels), FALSE)
        \cup WithField(electric, "max_range_km", AsNumberOrText(MaxRanges), FALSE)
        \cup UNION {WithField(r, "max_range_km", AsNumberOrText({PyInt(55)}), FALSE) :
                      r \in charged}

CoercionUsers ==
    WithField([user_id |-> U1, name |-> ALICE, email |-> ALICE_MAIL, user_type |-> CASUAL],
              "day_pass_count", AsNumberOrText(DayPassCounts19), FALSE)

NextCoercion ==
    \/ CreateBike(CoercionBikes)
    \/ CreateUser(CoercionUsers)

SpecCoercion == Init /\ [][NextCoercion]_vars

-----------------------------------------------------------------------------
(* Records that fail: a key missing, a type tag that is no text, and       *)
(* field values of the wrong type or out of range.                         *)

TEXT_ABC == PyStr(<<"a", "b", "c">>)

\* The records that lack one key of r.
Without(r, keys) == {[k \in DOMAIN r \ {key} |-> r[k]] : key \in keys}

\* The records that differ from r in the value of one key.
WithOther(r, key, values) == {[r EXCEPT ![key] = v] : v \in values}

FailingBikes ==
    LET classic == [bike_id |-> BK1, bike_type |-> CLASSIC, gear_count |-> PyInt(7)]
        electric == [bike_id |-> EB1, bike_type |-> ELECTRIC_UPPER,
                     battery_level |-> PyFloat(80)]
    IN
    {classic, electric}
        \cup Without(classic, {"bike_id", "bike_type", "gear_count"})
        \cup Without(electric, {"bike_id", "battery_level"})
        \cup WithOther(classic, "bike_type", {PyInt(5), PyFloat(1), SCOOTER})
        \cup WithOther(classic, "bike_id", {PyInt(5), EMPTY})
        \cup WithOther(classic, "gear_count", {TEXT_ABC, PyInt(0)})
        \cup WithOther(electric, "battery_level", {TEXT_ABC, PyInt(150)})

FailingUsers ==
    LET casual == [user_id |-> U1, name |-> ALICE, email |-> ALICE_MAIL,
                   user_type |-> CASUAL]
        member == [user_id |-> U1, name |-> ALICE, email |-> ALICE_MAIL,
                   user_type |-> Member, tier |-> BASIC]
    IN
    {casual, member}
        \cup Without(casual, {"user_id", "name", "email", "user_type"})
        \cup Without(member, {"user_id", "name", "email", "tier"})
        \cup WithOther(casual, "user_type", {PyInt(5), ADMIN})
        \cup WithOther(casual, "name", {PyInt(5), BLANK})
        \cup WithOther(casual, "email", {PyInt(5), NO_AT})
        \cup WithOther(member, "tier", {PyInt(5), GOLD})
        \cup WithField(casual, "day_pass_count", {TEXT_ABC, PyInt(-1)}, FALSE)
        \cup WithField(member, "membership_start", {TEXT_JUNE, PyInt(5)}, FALSE)

NextFailures ==
    \/ CreateBike(FailingBikes)
    \/ CreateUser(FailingUsers)

SpecFailures == Init /\ [][NextFailures]_vars

-----------------------------------------------------------------------------
(* The factories called again and again on the same records, while the     *)
(* clock runs and bikes are made in between.                               *)

PureBikes ==
    {[bike_id |-> BK1, bike_type |-> CLASSIC],
     [bike_id |-> BK1, bike_type |-> Classic, gear_count |-> TEXT_21],
     [bike_id |-> EB1, bike_type |-> ELECTRIC],
     [bike_id |-> BK1, bike_type |-> SCOOTER],
     [bike_type |-> CLASSIC]}

PureUsers ==
    {[user_id |-> U1, name |-> ALICE, email |-> ALICE_MAIL, user_type |-> CASUAL],
     [user_id |-> U1, name |-> ALICE, email |-> ALICE_MAIL, user_type |-> MEMBER],
     [user_id |-> U1, name |-> ALICE, email |-> ALICE_MAIL, user_type |-> MEMBER,
      membership_start |-> TEXT_JAN1, membership_end |-> TEXT_JUN1],
     [user_id |-> U1, name |-> ALICE, email |-> ALICE_MAIL, user_type |-> MEMBER,
      membership_start |-> TEXT_JUNE],
     [user_id |-> U1, name |-> ALICE, email |-> ALICE_MAIL, user_type |-> ADMIN]}

NextPure ==
    \/ CreateBike(PureBikes)
    \/ CreateUser(PureUsers)
    \/ NewClassicBike({ClassicBikeBase})
    \/ Tick

SpecPure == Init /\ [][NextPure]_vars

-----------------------------------------------------------------------------
(* numpy's float64: binary floating point, every operation rounded to the  *)
(* nearest value, ties to even. A finite value is m * 2^e with m odd (or   *)
(* zero); the significand has Precision bits, where the build has 53.      *)

Float(m, e) == [k |-> "finite", m |-> m, e |-> e]
NaN64 == [k |-> "nan", m |-> 0, e |-> 0]
IsFinite(x) == x.k = "finite"

Abs(n) == IF n < 0 THEN -n ELSE n
Sign(n) == IF n < 0 THEN -1 ELSE 1
BitLength(n) == IF n = 0 THEN 0 ELSE CHOOSE b \in 1..31 : 2^(b-1) <= n /\ n <= 2^(b-1) - 1 + 2^(b-1)

\* m * 2^e with the factors of two moved from m to e.
RECURSIVE Normal(_, _)
Normal(m, e) ==
    IF m = 0 THEN Float(0, 0)
    ELSE IF m % 2 = 0 THEN Normal(m \div 2, e + 1)
    ELSE Float(m, e)

\* A faulty variant: the digits beyond the significand are cut off.
RoundTo_truncating(m, e) ==
    LET a == Abs(m)
        s == BitLength(a) - Precision
    IN
    IF s <= 0 THEN Normal(m, e)
    ELSE Normal(Sign(m) * (a \div 2^s), e + s)

\* The float nearest to m * 2^e, ties to the even significand.
RoundTo(m, e) ==
    LET a == Abs(m)
        s == BitLength(a) - Precision
    IN
    IF s <= 0 THEN Normal(m, e)
    ELSE LET q == a \div 2^s
             r == a % 2^s
             half == 2^(s-1)
             up == r > half \/ (r = half /\ q % 2 = 1)
         IN Normal(Sign(m) * (IF up THEN q + 1 ELSE q), e + s)

\* The integer x / 2^e, for e no greater than the exponent of x.
Scaled(x, e) == IF x.m = 0 THEN 0 ELSE x.m * 2^(x.e - e)
LowExp(x, y) == IF x.m = 0 THEN y.e ELSE IF y.m = 0 THEN x.e ELSE IF x.e < y.e THEN x.e ELSE y.e

FromInt(n) == RoundTo(n, 0)
Neg(x) == IF IsFinite(x) THEN Float(-x.m, x.e) ELSE NaN64
FAbs(x) == IF IsFinite(x) THEN Float(Abs(x.m), x.e) ELSE NaN64

Add(x, y) ==
    IF ~IsFinite(x) \/ ~IsFinite(y) THEN NaN64
    ELSE LET e == LowExp(x, y) IN RoundTo(Scaled(x, e) + Scaled(y, e), e)

Sub(x, y) == Add(x, Neg(y))

Mul(x, y) ==
    IF ~IsFinite(x) \/ ~IsFinite(y) THEN NaN64
    ELSE RoundTo(x.m * y.m, x.e + y.e)

\* x / y: the quotient to 2 * Precision + 2 binary places, the last digit
\* standing for a remainder; 0/0 is nan.
Div(x, y) ==
    IF ~IsFinite(x) \/ ~IsFinite(y) \/ y.m = 0 THEN NaN64
    ELSE LET places == 2 * Precision + 2
             a == Abs(x.m) * 2^places
             q == a \div Abs(y.m)
             sticky == IF a % Abs(y.m) = 0 THEN 0 ELSE 1
         IN RoundTo(Sign(x.m) * Sign(y.m) * (2 * q + sticky), x.e - y.e - places - 1)

RECURSIVE RootBetween(_, _, _)
RootBetween(n, lo, hi) ==
    IF lo = hi THEN lo
    ELSE LET mid == (lo + hi + 1) \div 2 IN
         IF mid * mid <= n THEN RootBetween(n, mid, hi) ELSE RootBetween(n, lo, mid - 1)

\* sqrt(x): the root of the significand to Precision + 1 binary places, the
\* last digit standing for a remainder; the root of a negative is nan.
Sqrt(x) ==
    IF ~IsFinite(x) \/ x.m < 0 THEN NaN64
    ELSE LET odd == x.e % 2 = 1
             m == (IF odd THEN 2 * x.m ELSE x.m) * 4^(Precision + 1)
             e == IF odd THEN x.e - 1 ELSE x.e
             root == RootBetween(m, 0, 2^15)
             sticky == IF root * root = m THEN 0 ELSE 1
         IN RoundTo(2 * root + sticky, (e \div 2) - (Precision + 1) - 1)

\* Comparisons; every comparison with nan is false.
Less(x, y) ==
    /\ IsFinite(x) /\ IsFinite(y)
    /\ LET e == LowExp(x, y) IN Scaled(x, e) < Scaled(y, e)
Greater(x, y) == Less(y, x)
LessEq(x, y) == IsFinite(x) /\ IsFinite(y) /\ ~Less(y, x)

\* The float of a decimal literal n/d, such as 0.15.
Dec(n, d) == Div(FromInt(n), FromInt(d))

-----------------------------------------------------------------------------
(* numpy's array functions, on one-dimensional arrays of float64 (whole    *)
(* numbers become floats as they enter an array function).                 *)

\* Sums of fewer than eight elements are added up from left to right.
RECURSIVE SumTo(_, _)
SumTo(a, n) == IF n = 0 THEN Float(0, 0) ELSE Add(SumTo(a, n - 1), a[n])
np_sum(a) == SumTo(a, Len(a))

\* The mean of no elements is 0/0.
np_mean(a) == Div(np_sum(a), FromInt(Len(a)))

\* A faulty variant: the sample standard deviation, with n - 1.
np_std_sample(a) ==
    LET mean == np_mean(a)
        x == [i \in 1..Len(a) |-> Sub(a[i], mean)]
        sq == [i \in 1..Len(a) |-> Mul(x[i], x[i])]
    IN Sqrt(Div(np_sum(sq), FromInt(Len(a) - 1)))

\* sqrt(mean(abs(a - a.mean())**2)), the population standard deviation.
np_std(a) ==
    LET mean == np_mean(a)
        x == [i \in 1..Len(a) |-> Sub(a[i], mean)]
        sq == [i \in 1..Len(a) |-> Mul(x[i], x[i])]
    IN Sqrt(np_mean(sq))

np_sort(a) == SortSeq(a, Less)

np_median(a) ==
    LET sorted == np_sort(a)
        n == Len(a)
    IN
    IF n = 0 THEN NaN64
    ELSE IF n % 2 = 1 THEN sorted[(n + 1) \div 2]
    ELSE np_mean(<<sorted[n \div 2], sorted[n \div 2 + 1]>>)

\* The whole part of a float that is not negative.
Floor(x) == IF x.e >= 0 THEN x.m * 2^x.e ELSE x.m \div 2^(-x.e)

\* a + (b - a) * t, taken from b's side when t >= 0.5.
lerp(a, b, t) ==
    LET diff_b_a == Sub(b, a) IN
    IF LessEq(Dec(1, 2), t) THEN Sub(b, Mul(diff_b_a, Sub(FromInt(1), t)))
    ELSE Add(a, Mul(diff_b_a, t))

\* A faulty variant: the lower of the two nearest elements.
np_percentile_lower(a, q) ==
    LET sorted == np_sort(a)
        n == Len(a)
        virtual_index == Mul(FromInt(n - 1), Div(FromInt(q), FromInt(100)))
    IN sorted[Floor(virtual_index) + 1]

\* The q-th percentile of a non-empty array by the default method, "linear".
np_percentile(a, q) ==
    LET sorted == np_sort(a)
        n == Len(a)
        virtual_index == Mul(FromInt(n - 1), Div(FromInt(q), FromInt(100)))
        previous == Floor(virtual_index)
        next == IF previous + 1 > n - 1 THEN n - 1 ELSE previous + 1
        gamma == Sub(virtual_index, FromInt(previous))
    IN lerp(sorted[previous + 1], sorted[next + 1], gamma)

\* The shape two shapes broadcast to, or none.
Broadcasts(n, m) == n = m \/ n = 1 \/ m = 1
BroadcastLen(n, m) == IF n = 1 THEN m ELSE n
At(a, i) == IF Len(a) = 1 THEN a[1] ELSE a[i]

-----------------------------------------------------------------------------
(* numerical.py                                                            *)

\* A square array: its shape and its rows.
Matrix(rows) == [shape |-> <<Len(rows), Len(rows)>>, rows |-> rows]

\* A faulty variant: the distance along the axes.
station_distance_matrix_manhattan(latitudes, longitudes) ==
    LET n == Len(latitudes)
        m == Len(longitudes)
        lat_diff(i, j) == Sub(latitudes[i], latitudes[j])
        lon_diff(i, j) == Sub(longitudes[i], longitudes[j])
        distances(i, j) == Add(FAbs(lat_diff(i, j)), FAbs(lon_diff(i, j)))
    IN
    IF n # m THEN Fail("ValueError")
    ELSE Val(Matrix([i \in 1..n |-> [j \in 1..n |-> distances(i, j)]]))

station_distance_matrix(latitudes, longitudes) ==
    LET n == Len(latitudes)
        m == Len(longitudes)
        lat_diff(i, j) == Sub(At(latitudes, i), At(latitudes, j))
        lon_diff(i, j) == Sub(At(longitudes, i), At(longitudes, j))
        distances(i, j) == Sqrt(Add(Mul(lat_diff(i, j), lat_diff(i, j)),
                                    Mul(lon_diff(i, j), lon_diff(i, j))))
    IN
    IF ~Broadcasts(n, m) THEN Fail("ValueError")
    ELSE LET size == BroadcastLen(n, m) IN
         Val(Matrix([i \in 1..size |-> [j \in 1..size |-> distances(i, j)]]))

trip_duration_stats(durations) ==
    [mean |-> np_mean(durations),
     median |-> np_median(durations),
     std |-> np_std(durations),
     p25 |-> np_percentile(durations, 25),
     p75 |-> np_percentile(durations, 75),
     p90 |-> np_percentile(durations, 90)]

\* A faulty variant: a value at the threshold counts as an outlier.
detect_outliers_zscore_inclusive(values, threshold) ==
    LET mean == np_mean(values)
        std == np_std(values)
        z_scores == [i \in 1..Len(values) |-> Div(Sub(values[i], mean), std)]
    IN
    IF std = Float(0, 0) THEN [i \in 1..Len(values) |-> FALSE]
    ELSE [i \in 1..Len(values) |-> LessEq(threshold, FAbs(z_scores[i]))]

detect_outliers_zscore(values, threshold) ==
    LET mean == np_mean(values)
        std == np_std(values)
        z_scores == [i \in 1..Len(values) |-> Div(Sub(values[i], mean), std)]
    IN
    IF std = Float(0, 0) THEN [i \in 1..Len(values) |-> FALSE]
    ELSE [i \in 1..Len(values) |-> Greater(FAbs(z_scores[i]), threshold)]

\* A faulty variant: the unlock fee is charged per minute.
calculate_fares_fee_per_minute(durations, distances, per_minute, per_km, unlock_fee) ==
    LET n == Len(durations)
        m == Len(distances)
    IN
    IF ~Broadcasts(n, m) THEN Fail("ValueError")
    ELSE Val([i \in 1..BroadcastLen(n, m) |->
                 Add(Mul(Add(unlock_fee, per_minute), At(durations, i)),
                     Mul(per_km, At(distances, i)))])

calculate_fares(durations, distances, per_minute, per_km, unlock_fee) ==
    LET n == Len(durations)
        m == Len(distances)
    IN
    IF ~Broadcasts(n, m) THEN Fail("ValueError")
    ELSE Val([i \in 1..BroadcastLen(n, m) |->
                 Add(Add(unlock_fee, Mul(per_minute, At(durations, i))),
                     Mul(per_km, At(distances, i)))])

-----------------------------------------------------------------------------
(* Calls of the numerical functions. Each is a function of its arguments   *)
(* alone, so a behaviour applies one function once, to arguments drawn     *)
(* from a bounded set.                                                     *)

NumericalCalled(op, args, r) ==
    /\ log = <<>>
    /\ log' = <<[op |-> op, data |-> args, exc |-> r.exc, msg |-> <<>>, obj |-> r.val,
                 at |-> now]>>
    /\ last' = Called(op, r.exc, 0, args, <<>>)
    /\ UNCHANGED <<bikes, born, stations, users, trips, tripArgs, records, recordArgs, now>>

StationDistanceMatrix(calls) ==
    \E a \in calls :
        NumericalCalled("station_distance_matrix", a, station_distance_matrix(a[1], a[2]))

TripDurationStats(calls) ==
    \E a \in calls :
        NumericalCalled("trip_duration_stats", a, Val(trip_duration_stats(a[1])))

DetectOutliersZscore(calls) ==
    \E a \in calls :
        NumericalCalled("detect_outliers_zscore", a,
                        Val(detect_outliers_zscore(a[1], Default(a[2], FromInt(3)))))

CalculateFares(calls) ==
    \E a \in calls :
        NumericalCalled("calculate_fares", a,
                        calculate_fares(a[1], a[2], a[3], a[4], Default(a[5], Float(0, 0))))

-----------------------------------------------------------------------------
(* Station coordinates: up to MaxLen points, whole and fractional, near    *)
(* and far, and two calls whose sequences differ in length.                *)

Arrays(values, n) == UNION {[1..k -> values] : k \in 0..n}

Points ==
    {<<FromInt(0), FromInt(0)>>, <<FromInt(0), FromInt(3)>>, <<FromInt(4), FromInt(0)>>,
     <<FromInt(1), FromInt(1)>>, <<Dec(-3, 2), FromInt(2)>>, <<FromInt(90), FromInt(-180)>>}

DistanceCalls ==
    {<<[i \in DOMAIN ps |-> ps[i][1]], [i \in DOMAIN ps |-> ps[i][2]]>> :
        ps \in Arrays(Points, MaxLen)}
        \cup {<<<<FromInt(0), FromInt(4)>>, <<FromInt(3)>>>>,
              <<<<FromInt(0), FromInt(4)>>, <<FromInt(3), FromInt(0), FromInt(1)>>>>}

NextDistance ==
    \/ StationDistanceMatrix(DistanceCalls)

SpecDistance == Init /\ [][NextDistance]_vars

-----------------------------------------------------------------------------
(* Values to look for outliers in: whole numbers and fractions that are no *)
(* floats, with each threshold and with none.                              *)

OutlierValues == {FromInt(0), FromInt(7), FromInt(-7), FromInt(100), Dec(1, 10), Dec(9, 10)}
Thresholds == {NotGiven, Dec(1, 2), FromInt(1), Dec(3, 2)}

OutlierCalls == {<<values, threshold>> : values \in Arrays(OutlierValues, MaxLen),
                                         threshold \in Thresholds}

NextOutliers ==
    \/ DetectOutliersZscore(OutlierCalls)

SpecOutliers == Init /\ [][NextOutliers]_vars

-----------------------------------------------------------------------------
(* Trip durations: every sequence of one to MaxLen durations, and the five *)
(* durations of the tests.                                                 *)

Durations == {FromInt(0), Dec(5, 2), FromInt(10), FromInt(20), FromInt(42), FromInt(50)}
TEN_TO_FIFTY == <<FromInt(10), FromInt(20), FromInt(30), FromInt(40), FromInt(50)>>

StatsCalls == {<<durations>> : durations \in (Arrays(Durations, MaxLen) \ {<<>>}) \cup {TEN_TO_FIFTY}}

NextStats ==
    \/ TripDurationStats(StatsCalls)

SpecStats == Init /\ [][NextStats]_vars

-----------------------------------------------------------------------------
(* Trips to charge: up to MaxLen pairs of a duration and a distance, the   *)
(* rates of the tests and rates that are floats, with an unlock fee and    *)
(* without, and two calls whose sequences differ in length.                *)

TripMeasures ==
    {<<FromInt(0), FromInt(0)>>, <<FromInt(10), FromInt(2)>>, <<FromInt(20), FromInt(5)>>,
     <<FromInt(30), FromInt(8)>>, <<FromInt(0), Dec(5, 2)>>}
Rates == {<<Dec(15, 100), Dec(10, 100)>>, <<Dec(1, 2), Dec(1, 4)>>}
UnlockFees == {NotGiven, FromInt(1)}

FareCalls ==
    {<<[i \in DOMAIN ts |-> ts[i][1]], [i \in DOMAIN ts |-> ts[i][2]], rate[1], rate[2], fee>> :
        ts \in Arrays(TripMeasures, MaxLen), rate \in Rates, fee \in UnlockFees}
        \cup {<<<<FromInt(10), FromInt(20)>>, <<FromInt(2)>>, Dec(1, 2), Dec(1, 4), NotGiven>>,
              <<<<FromInt(10), FromInt(20)>>, <<FromInt(2), FromInt(5), FromInt(8)>>,
                Dec(1, 2), Dec(1, 4), NotGiven>>}

NextFares ==
    \/ CalculateFares(FareCalls)

SpecFares == Init /\ [][NextFares]_vars

-----------------------------------------------------------------------------
(* __str__ and __repr__: the display form and the diagnostic form of       *)
(* every class. An attribute that was never set raises AttributeError.     *)

\* f"...{self.name}...": each attribute read in turn, then the pieces joined.
RECURSIVE Joined(_, _)
Joined(o, pieces) ==
    IF pieces = <<>> THEN Val(<<>>)
    ELSE LET piece == Head(pieces)
             rest == Joined(o, Tail(pieces))
         IN
         IF piece.attr = "" THEN (IF rest.exc # "" THEN rest ELSE Val(piece.text \o rest.val))
         ELSE IF ~HasAttr(o, piece.attr) THEN Fail("AttributeError")
         ELSE IF rest.exc # "" THEN rest
         ELSE Val((IF piece.r THEN repr(o.d[piece.attr]) ELSE str(o.d[piece.attr])) \o rest.val)

Lit(text) == [attr |-> "", text |-> text, r |-> FALSE]
Fmt(attr) == [attr |-> attr, text |-> <<>>, r |-> FALSE]
FmtR(attr) == [attr |-> attr, text |-> <<>>, r |-> TRUE]

Bike__str__(o) ==
    Joined(o, <<Lit(<<"B", "i", "k", "e", "(">>), Fmt("_id"), Lit(<<",", " ">>), Fmt("_bike_type"), Lit(<<",", " ">>),
                Fmt("_status"), Lit(<<")">>)>>)

Bike__repr__(o) ==
    Joined(o, <<Lit(<<"B", "i", "k", "e", "(", "b", "i", "k", "e", "_", "i", "d", "=">>), FmtR("_id"), Lit(<<",", " ", "b", "i", "k", "e", "_", "t", "y", "p", "e", "=">>), FmtR("_bike_type"),
                Lit(<<",", " ", "s", "t", "a", "t", "u", "s", "=">>), FmtR("_status"), Lit(<<")">>)>>)

ClassicBike__str__(o) ==
    Joined(o, <<Lit(<<"C", "l", "a", "s", "s", "i", "c", "B", "i", "k", "e", "(">>), Fmt("_id"), Lit(<<",", " ", "g", "e", "a", "r", "s", "=">>), Fmt("_gear_count"),
                Lit(<<")">>)>>)

ClassicBike__repr__(o) ==
    Joined(o, <<Lit(<<"C", "l", "a", "s", "s", "i", "c", "B", "i", "k", "e", "(", "b", "i", "k", "e", "_", "i", "d", "=">>), FmtR("_id"), Lit(<<",", " ", "g", "e", "a", "r", "_", "c", "o", "u", "n", "t", "=">>),
                Fmt("_gear_count"), Lit(<<",", " ", "s", "t", "a", "t", "u", "s", "=">>), FmtR("_status"), Lit(<<")">>)>>)

ElectricBike__str__(o) ==
    Joined(o, <<Lit(<<"E", "l", "e", "c", "t", "r", "i", "c", "B", "i", "k", "e", "(", "i", "d", "=">>), Fmt("_id"), Lit(<<",", " ", "b", "a", "t", "t", "e", "r", "y", "=">>),
                Fmt("_battery_level"), Lit(<<"%", ",", " ", "r", "a", "n", "g", "e", "=">>), Fmt("_max_range_km"),
                Lit(<<"k", "m", ")">>)>>)

ElectricBike__repr__(o) ==
    Joined(o, <<Lit(<<"E", "l", "e", "c", "t", "r", "i", "c", "B", "i", "k", "e", "(", "b", "i", "k", "e", "_", "i", "d", "=">>), FmtR("_id"), Lit(<<",", " ", "b", "a", "t", "t", "e", "r", "y", "_", "l", "e", "v", "e", "l", "=">>),
                FmtR("_battery_level"), Lit(<<",", " ", "m", "a", "x", "_", "r", "a", "n", "g", "e", "_", "k", "m", "=">>), FmtR("_max_range_km"),
                Lit(<<")">>)>>)

Station__str__(o) ==
    Joined(o, <<Lit(<<"S", "t", "a", "t", "i", "o", "n", "(">>), Fmt("_id"), Lit(<<",", " ">>), Fmt("_name"), Lit(<<",", " ", "c", "a", "p", "=">>),
                Fmt("_capacity"), Lit(<<")">>)>>)

Station__repr__(o) ==
    Joined(o, <<Lit(<<"S", "t", "a", "t", "i", "o", "n", "(", "s", "t", "a", "t", "i", "o", "n", "_", "i", "d", "=">>), FmtR("_id"), Lit(<<",", " ", "n", "a", "m", "e", "=">>), FmtR("_name"),
                Lit(<<",", " ", "c", "a", "p", "a", "c", "i", "t", "y", "=">>), FmtR("_capacity"), Lit(<<",", " ", "l", "a", "t", "i", "t", "u", "d", "e", "=">>),
                FmtR("_latitude"), Lit(<<",", " ", "l", "o", "n", "g", "i", "t", "u", "d", "e", "=">>), FmtR("_longitude"), Lit(<<")">>)>>)

User__str__(o) ==
    Joined(o, <<Lit(<<"U", "s", "e", "r", "(">>), Fmt("_id"), Lit(<<",", " ">>), Fmt("_user_type"), Lit(<<")">>)>>)

User__repr__(o) ==
    Joined(o, <<Lit(<<"U", "s", "e", "r", "(", "u", "s", "e", "r", "_", "i", "d", "=">>), FmtR("_id"), Lit(<<",", " ", "n", "a", "m", "e", "=">>), FmtR("_name"),
                Lit(<<",", " ", "e", "m", "a", "i", "l", "=">>), FmtR("_email"), Lit(<<",", " ", "u", "s", "e", "r", "_", "t", "y", "p", "e", "=">>), FmtR("_user_type"),
                Lit(<<")">>)>>)

CasualUser__str__(o) ==
    Joined(o, <<Lit(<<"C", "a", "s", "u", "a", "l", "U", "s", "e", "r", "(">>), Fmt("_id"), Lit(<<",", " ", "d", "a", "y", "_", "p", "a", "s", "s", "e", "s", "=">>),
                Fmt("_day_pass_count"), Lit(<<")">>)>>)

CasualUser__repr__(o) ==
    Joined(o, <<Lit(<<"C", "a", "s", "u", "a", "l", "U", "s", "e", "r", "(", "u", "s", "e", "r", "_", "i", "d", "=">>), FmtR("_id"), Lit(<<",", " ", "n", "a", "m", "e", "=">>), FmtR("_name"),
                Lit(<<",", " ", "e", "m", "a", "i", "l", "=">>), FmtR("_email"), Lit(<<",", " ", "d", "a", "y", "_", "p", "a", "s", "s", "_", "c", "o", "u", "n", "t", "=">>),
                FmtR("_day_pass_count"), Lit(<<")">>)>>)

MemberUser__str__(o) ==
    Joined(o, <<Lit(<<"M", "e", "m", "b", "e", "r", "U", "s", "e", "r", "(">>), Fmt("_id"), Lit(<<",", " ", "t", "i", "e", "r", "=">>), Fmt("_tier"), Lit(<<")">>)>>)

MemberUser__repr__(o) ==
    Joined(o, <<Lit(<<"M", "e", "m", "b", "e", "r", "U", "s", "e", "r", "(", "u", "s", "e", "r", "_", "i", "d", "=">>), FmtR("_id"), Lit(<<",", " ", "n", "a", "m", "e", "=">>), FmtR("_name"),
                Lit(<<",", " ", "e", "m", "a", "i", "l", "=">>), FmtR("_email"), Lit(<<",", " ", "t", "i", "e", "r", "=">>), FmtR("_tier"),
                Lit(<<",", " ", "m", "e", "m", "b", "e", "r", "s", "h", "i", "p", "_", "s", "t", "a", "r", "t", "=">>), FmtR("_membership_start"),
                Lit(<<",", " ", "m", "e", "m", "b", "e", "r", "s", "h", "i", "p", "_", "e", "n", "d", "=">>), FmtR("_membership_end"), Lit(<<")">>)>>)

\* Trip.__init__ stores nothing, so self.trip_id is no attribute.
Trip__str__(o) == Joined(o, <<Lit(<<"T", "r", "i", "p", "(">>), Fmt("trip_id"), Lit(<<")">>)>>)
Trip__repr__(o) == Joined(o, <<Lit(<<"T", "r", "i", "p", "(", "t", "r", "i", "p", "_", "i", "d", "=">>), FmtR("trip_id"), Lit(<<")">>)>>)

MaintenanceRecord__str__(o) == Joined(o, <<Lit(<<"M", "a", "i", "n", "t", "e", "n", "a", "n", "c", "e", "R", "e", "c", "o", "r", "d", "(", ")">>)>>)
MaintenanceRecord__repr__(o) == Joined(o, <<Lit(<<"M", "a", "i", "n", "t", "e", "n", "a", "n", "c", "e", "R", "e", "c", "o", "r", "d", "(", ")">>)>>)

\* str(o) and repr(o): the method of the object's class.
ObjectStr(o) ==
    CASE o.cls = "Bike" -> Bike__str__(o)
      [] o.cls = "ClassicBike" -> ClassicBike__str__(o)
      [] o.cls = "ElectricBike" -> ElectricBike__str__(o)
      [] o.cls = "Station" -> Station__str__(o)
      [] o.cls = "User" -> User__str__(o)
      [] o.cls = "CasualUser" -> CasualUser__str__(o)
      [] o.cls = "MemberUser" -> MemberUser__str__(o)
      [] o.cls = "Trip" -> Trip__str__(o)
      [] o.cls = "MaintenanceRecord" -> MaintenanceRecord__str__(o)

ObjectRepr(o) ==
    CASE o.cls = "Bike" -> Bike__repr__(o)
      [] o.cls = "ClassicBike" -> ClassicBike__repr__(o)
      [] o.cls = "ElectricBike" -> ElectricBike__repr__(o)
      [] o.cls = "Station" -> Station__repr__(o)
      [] o.cls = "User" -> User__repr__(o)
      [] o.cls = "CasualUser" -> CasualUser__repr__(o)
      [] o.cls = "MemberUser" -> MemberUser__repr__(o)
      [] o.cls = "Trip" -> Trip__repr__(o)
      [] o.cls = "MaintenanceRecord" -> MaintenanceRecord__repr__(o)

\* The entities that exist, by kind.
Entities(kind) ==
    CASE kind = "bike" -> bikes
      [] kind = "station" -> stations
      [] kind = "user" -> users
      [] kind = "trip" -> trips
      [] kind = "record" -> records
Kinds == {"bike", "station", "user", "trip", "record"}

\* str(entity) or repr(entity): the text or the error, and the entity as it
\* was read.
FormRead(op, kind, i, r) ==
    /\ Len(log) < MaxCalls
    /\ log' = Append(log, [op |-> op, data |-> <<kind, i>>, exc |-> r.exc,
                           msg |-> IF r.exc = "" THEN r.val ELSE <<>>,
                           obj |-> Entities(kind)[i], at |-> now])
    /\ last' = Called(op, r.exc, i, <<kind>>, <<bikes, stations, users, trips, records>>)
    /\ UNCHANGED <<bikes, born, stations, users, trips, tripArgs, records, recordArgs, now>>

Str(kinds) ==
    \E kind \in kinds : \E i \in 1..Len(Entities(kind)) :
        FormRead("str", kind, i, ObjectStr(Entities(kind)[i]))

Repr(kinds) ==
    \E kind \in kinds : \E i \in 1..Len(Entities(kind)) :
        FormRead("repr", kind, i, ObjectRepr(Entities(kind)[i]))

-----------------------------------------------------------------------------
(* The forms of entities of every kind: a bike whose status changes, a     *)
(* station, a member, a trip and a maintenance record are made and read.   *)

MemberSinceJan1 == <<U1, ALICE, ALICE_MAIL, PyDateTime(0), None, BASIC>>

NextDisplay ==
    \/ NewClassicBike({ClassicBikeBase})
    \/ SetAttr({"status"}, {IN_USE})
    \/ NewStation({StationBase})
    \/ NewMemberUser({MemberSinceJan1})
    \/ NewTrip({<<TR1, u, b, s, s, T1000, T1030, PyFloat(5)>> :
                   u \in UserRefs, b \in BikeRefs, s \in StationRefs})
    \/ NewMaintenanceRecord({<<MR1, b, T1000, TIRE_REPAIR, PyFloat(25), EMPTY>> :
                                b \in BikeRefs})
    \/ Str(Kinds)
    \/ Repr(Kinds)

SpecDisplay == Init /\ [][NextDisplay]_vars

-----------------------------------------------------------------------------
(* The diagnostic forms of bikes of every class whose statuses change.     *)

NextDiagnostic ==
    \/ NewBike({BikeBase})
    \/ NewClassicBike({ClassicBikeBase})
    \/ NewElectricBike({ElectricBikeBase})
    \/ SetAttr({"status"}, VALID_STATUSES)
    \/ Repr({"bike"})

SpecDiagnostic == Init /\ [][NextDiagnostic]_vars

-----------------------------------------------------------------------------
(* Claims about Bike.status.                                               *)

\* C1: in every reachable state, whatever constructions and status
\* assignments (valid or invalid) led to it, the status of every existing
\* bike is one of available, in_use, maintenance.
C1_StatusAlwaysValid ==
    \A i \in 1..Len(bikes) : Bike_status(bikes[i]) \in VALID_STATUSES

\* C1 witness: a bike has been moved to maintenance by an assignment, and an
\* invalid assignment has just been attempted on an existing bike.
C1_Witness ==
    /\ last.op = "set_status"
    /\ last.args[1] \notin VALID_STATUSES
    /\ \E i \in 1..Len(bikes) : Bike_status(bikes[i]) = MAINTENANCE

\* C2: assigning any of the three valid statuses to a bike in any status
\* (the current one included) succeeds, and the status read afterwards is the
\* assigned value.
C2_AnyValidTransition ==
    (last.op = "set_status" /\ last.args[1] \in VALID_STATUSES)
        => /\ last.exc = ""
           /\ Bike_status(bikes[last.ref]) = last.args[1]

\* C2 witness: a bike in maintenance has been assigned available (a move
\* back) and reads available.
C2_Witness ==
    /\ last.op = "set_status"
    /\ last.exc = ""
    /\ Bike_status(last.pre[last.ref]) = MAINTENANCE
    /\ last.args[1] = AVAILABLE
    /\ Bike_status(bikes[last.ref]) = AVAILABLE

\* C3: assigning to status a value that is not a valid status raises
\* ValueError and leaves the status and every other field of the bike (and
\* of every bike) as before the assignment.
C3_InvalidAssignmentRejected ==
    (last.op = "set_status" /\ last.args[1] \notin VALID_STATUSES)
        => /\ last.exc = "ValueError"
           /\ bikes = last.pre

\* C3 witness: an invalid value has been assigned to a bike whose status had
\* been changed since construction.
C3_Witness ==
    /\ last.op = "set_status"
    /\ last.args[1] = BROKEN
    /\ last.exc = "ValueError"
    /\ Bike_status(bikes[last.ref]) = IN_USE
    /\ Bike_status(born[last.ref]) = AVAILABLE

\* C4: every field of a bike other than status keeps the value it had right
\* after construction (id, created_at, bike_type, gear_count, battery_level,
\* max_range_km; no attribute is added or removed), whatever assignments
\* were accepted or rejected since, and a status assignment on one bike
\* changes nothing of any other bike.
C4_FieldsImmutable ==
    /\ \A i \in 1..Len(bikes) :
           [bikes[i] EXCEPT !.d._status = Bike_status(born[i])] = born[i]
    /\ last.op = "set_status"
           => /\ Len(bikes) = Len(last.pre)
              /\ \A j \in 1..Len(bikes) : j # last.ref => bikes[j] = last.pre[j]

\* C4 witness: two bikes of different classes, the second made later than
\* the first; both have had their status changed, the last assignment was
\* accepted and made after the clock had moved on from the bike's creation.
C4_Witness ==
    /\ Len(bikes) = 2
    /\ bikes[1].cls # bikes[2].cls
    /\ Entity_created_at(bikes[1]) # Entity_created_at(bikes[2])
    /\ last.op = "set_status"
    /\ last.exc = ""
    /\ \A i \in 1..2 : Bike_status(bikes[i]) # Bike_status(born[i])
    /\ Entity_created_at(bikes[last.ref]) # PyDateTime(now)

-----------------------------------------------------------------------------
(* Claims about Trip and MaintenanceRecord.                                *)

IsBike(v) == v.t \in {"Bike", "ClassicBike", "ElectricBike"}

\* C5: a Trip with distance_km < 0 or end_time < start_time is rejected with
\* ValueError, so no such trip exists; with distance_km >= 0 and
\* end_time >= start_time the construction succeeds and trip_id and
\* distance_km read back as supplied.
C5_TripValidated ==
    /\ \A i \in 1..Len(trips) :
           /\ ~NumLt(tripArgs[i][8], PyInt(0))
           /\ tripArgs[i][7].n >= tripArgs[i][6].n
           /\ GetAttr(trips[i], "trip_id") = Ok(tripArgs[i][1])
           /\ GetAttr(trips[i], "distance_km") = Ok(tripArgs[i][8])
    /\ last.op = "Trip"
           => IF NumLt(last.args[8], PyInt(0)) \/ last.args[7].n < last.args[6].n
              THEN last.exc = "ValueError"
              ELSE last.exc = ""

\* C6: for every constructed Trip, duration_minutes is (end_time -
\* start_time) in minutes, not rounded: 60 * duration_minutes is the number
\* of seconds between the two times.
C6_DurationMinutes ==
    \A i \in 1..Len(trips) :
        60 * Trip_duration_minutes(trips[i]).n = tripArgs[i][7].n - tripArgs[i][6].n

\* C7: a MaintenanceRecord with cost < 0 or a maintenance_type outside the
\* five allowed values is rejected with ValueError, one whose bike is not a
\* Bike with TypeError; otherwise the construction succeeds and record_id,
\* bike, cost and maintenance_type read back as supplied.
C7_RecordValidated ==
    /\ last.op = "MaintenanceRecord"
           => IF ~IsBike(last.args[2]) THEN last.exc = "TypeError"
              ELSE IF NumLt(last.args[5], PyInt(0)) \/ last.args[4] \notin VALID_TYPES
                   THEN last.exc = "ValueError"
              ELSE last.exc = ""
    /\ \A i \in 1..Len(records) :
           /\ IsBike(recordArgs[i][2])
           /\ ~NumLt(recordArgs[i][5], PyInt(0))
           /\ recordArgs[i][4] \in VALID_TYPES
           /\ GetAttr(records[i], "record_id") = Ok(recordArgs[i][1])
           /\ GetAttr(records[i], "bike") = Ok(recordArgs[i][2])
           /\ GetAttr(records[i], "maintenance_type") = Ok(recordArgs[i][4])
           /\ GetAttr(records[i], "cost") = Ok(recordArgs[i][5])

\* The status read through the bike attribute of a trip or a record o made
\* with the bike argument b: the current status of the bike referred to.
StatusThrough(o) ==
    LET r == GetAttr(o, "bike") IN
    IF r.exc # "" THEN r ELSE Ok(Bike_status(bikes[r.obj.n]))

\* C8: a Trip or MaintenanceRecord shares the Bike it was constructed with:
\* whatever status assignments followed the construction, the status read
\* through its bike is the current status of that bike.
C8_SharedBike ==
    /\ \A i \in 1..Len(trips) :
           StatusThrough(trips[i]) = Ok(Bike_status(bikes[tripArgs[i][3].n]))
    /\ \A i \in 1..Len(records) :
           StatusThrough(records[i]) = Ok(Bike_status(bikes[recordArgs[i][2].n]))

-----------------------------------------------------------------------------
(* Claims about the fields validated at construction.                      *)

BikeConstructors == {"Bike", "ClassicBike", "ElectricBike"}
UserConstructors == {"CasualUser", "MemberUser"}
Constructors == BikeConstructors \cup UserConstructors \cup {"Station"}

\* The heap the constructor op adds to.
HeapOf(op) ==
    IF op \in BikeConstructors THEN bikes
    ELSE IF op \in UserConstructors THEN users
    ELSE stations

NonEmptyStr(v) == IsStr(v) /\ v.s # <<>>

\* C9: constructing a bike, a station or a user with an id that is empty or
\* not a string is rejected, so every existing entity has a non-empty string
\* id; the id getter returns exactly the id supplied at construction.
C9_EntityId ==
    /\ \A i \in 1..Len(bikes) : NonEmptyStr(Entity_id(bikes[i]))
    /\ \A i \in 1..Len(stations) : NonEmptyStr(Entity_id(stations[i]))
    /\ \A i \in 1..Len(users) : NonEmptyStr(Entity_id(users[i]))
    /\ last.op \in Constructors
           => /\ ~NonEmptyStr(last.args[1]) => (last.exc # "" /\ last.ref = 0)
              /\ last.exc = "" => Entity_id(HeapOf(last.op)[last.ref]) = last.args[1]

\* C9 witness: a bike, a station and a user exist, one of them with the
\* one-blank id, and a constructor has just been called with the number 123
\* as id.
C9_Witness ==
    /\ Len(bikes) > 0 /\ Len(stations) > 0 /\ Len(users) > 0
    /\ \E i \in 1..Len(bikes) : Entity_id(bikes[i]) = BLANK
    /\ last.op \in Constructors
    /\ last.args[1] = PyInt(123)
    /\ last.exc = "ValueError"

\* C10: every ClassicBike has gear_count > 0, every ElectricBike has
\* 0 <= battery_level <= 100 and max_range_km > 0; a construction with
\* gear_count <= 0, with battery_level outside [0, 100] or with
\* max_range_km <= 0 is rejected with ValueError, and a construction whose
\* values are in range succeeds (0 and 100 are accepted battery levels).
C10_FieldsInRange ==
    /\ \A i \in 1..Len(bikes) :
           /\ bikes[i].cls = "ClassicBike"
                  => NumLt(PyInt(0), ClassicBike_gear_count(bikes[i]))
           /\ bikes[i].cls = "ElectricBike"
                  => /\ NumLe(PyInt(0), ElectricBike_battery_level(bikes[i]))
                     /\ NumLe(ElectricBike_battery_level(bikes[i]), PyInt(100))
                     /\ NumLt(PyInt(0), ElectricBike_max_range_km(bikes[i]))
    /\ (last.op = "ClassicBike" /\ NonEmptyStr(last.args[1])
            /\ last.args[3] \in VALID_STATUSES /\ IsNumber(last.args[2]))
           => IF NumLt(PyInt(0), last.args[2])
              THEN last.exc = "" ELSE last.exc = "ValueError"
    /\ (last.op = "ElectricBike" /\ NonEmptyStr(last.args[1])
            /\ last.args[4] \in VALID_STATUSES)
           => IF /\ NumLe(PyInt(0), last.args[2]) /\ NumLe(last.args[2], PyInt(100))
                 /\ NumLt(PyInt(0), last.args[3])
              THEN last.exc = "" ELSE last.exc = "ValueError"

-----------------------------------------------------------------------------
(* Claims about Station.                                                   *)

IsWhitespace(cs) == \A i \in DOMAIN cs : cs[i] \in Whitespace

\* t is s without its leading and trailing whitespace: s is whitespace, t,
\* whitespace, and t neither starts nor ends with whitespace.
IsTrimOf(t, s) ==
    /\ IsStr(t) /\ IsStr(s)
    /\ t.s # <<>> => (t.s[1] \notin Whitespace /\ t.s[Len(t.s)] \notin Whitespace)
    /\ \E i \in 0..Len(s.s) :
           /\ i + Len(t.s) <= Len(s.s)
           /\ SubSeq(s.s, i + 1, i + Len(t.s)) = t.s
           /\ IsWhitespace(SubSeq(s.s, 1, i))
           /\ IsWhitespace(SubSeq(s.s, i + Len(t.s) + 1, Len(s.s)))

\* The arguments <<station_id, name, capacity, latitude, longitude>> are
\* those of a station the claim accepts.
StationAcceptable(a) ==
    /\ a[3].n > 0
    /\ ~IsNaN(a[4]) /\ -90 <= a[4].n /\ a[4].n <= 90
    /\ ~IsNaN(a[5]) /\ -180 <= a[5].n /\ a[5].n <= 180
    /\ IsStr(a[2]) /\ ~IsWhitespace(a[2].s)

\* C11: with a valid id, Station(...) succeeds exactly when capacity > 0,
\* -90 <= latitude <= 90, -180 <= longitude <= 180 and the name has a
\* character that is not whitespace; otherwise it raises ValueError and no
\* station is made. The stored name is the name without its leading and
\* trailing whitespace; capacity, latitude and longitude are stored as given.
C11_StationValidated ==
    /\ last.op = "Station"
           => IF StationAcceptable(last.args)
              THEN /\ last.exc = ""
                   /\ IsTrimOf(stations[last.ref].d._name, last.args[2])
                   /\ stations[last.ref].d._capacity = last.args[3]
                   /\ stations[last.ref].d._latitude = last.args[4]
                   /\ stations[last.ref].d._longitude = last.args[5]
              ELSE last.exc = "ValueError" /\ last.ref = 0
    /\ \A i \in 1..Len(stations) :
           /\ stations[i].d._capacity.n > 0
           /\ IsTrimOf(stations[i].d._name, stations[i].d._name)
           /\ stations[i].d._name.s # <<>>

\* C11 witness: a station at latitude 90 and longitude -180 has been made
\* from a name with blanks around it, and the stored name differs from the
\* name supplied.
C11_Witness ==
    /\ last.op = "Station"
    /\ last.exc = ""
    /\ last.args[4] = PyFloat(90)
    /\ last.args[5] = PyFloat(-180)
    /\ last.args[2] = PADDED
    /\ stations[last.ref].d._name # PADDED

-----------------------------------------------------------------------------
(* Claims about User, CasualUser and MemberUser.                           *)

AnyUserConstructors == {"User", "CasualUser", "MemberUser"}

\* C12: every existing user has a non-empty name, an email containing "@"
\* and a non-empty user_type; a construction with an empty or all-whitespace
\* name (or one that is no string), an email without "@" or (for User
\* itself) an empty user_type raises
\* ValueError and makes no user; every CasualUser has user_type "casual" and
\* every MemberUser "member".
C12_UserValidated ==
    /\ \A i \in 1..Len(users) :
           /\ NonEmptyStr(users[i].d._name)
           /\ \E k \in DOMAIN users[i].d._email.s : users[i].d._email.s[k] = "@"
           /\ NonEmptyStr(users[i].d._user_type)
           /\ users[i].cls = "CasualUser" => users[i].d._user_type = CASUAL
           /\ users[i].cls = "MemberUser" => users[i].d._user_type = MEMBER
    /\ (/\ last.op \in AnyUserConstructors
        /\ \/ ~IsStr(last.args[2]) \/ IsWhitespace(last.args[2].s)
           \/ \A k \in DOMAIN last.args[3].s : last.args[3].s[k] # "@"
           \/ last.op = "User" /\ last.args[4] = EMPTY)
           => last.exc = "ValueError" /\ last.ref = 0

\* C12 witness: a User made from a name with blanks around it and an email
\* that is an "@" between blanks exists; its name is stored without them.
C12_Witness ==
    /\ last.op = "User"
    /\ last.exc = ""
    /\ last.args[2] = PADDED
    /\ last.args[3] = AT_ONLY
    /\ users[last.ref].d._name # PADDED
    /\ users[last.ref].d._user_type \in {CASUAL, MEMBER}

\* C13: every existing CasualUser has an integer day_pass_count >= 0; a
\* construction with a negative day_pass_count or one that is no integer
\* raises ValueError and makes no user; a day_pass_count that is given is
\* stored as given, and one that is not given is 0.
C13_DayPassCount ==
    /\ \A i \in 1..Len(users) :
           users[i].cls = "CasualUser"
               => /\ users[i].d._day_pass_count.t = "int"
                  /\ users[i].d._day_pass_count.n >= 0
    /\ last.op = "CasualUser"
           => /\ (/\ last.args[4] # NotGiven
                  /\ last.args[4].t # "int" \/ last.args[4].n < 0)
                     => last.exc = "ValueError" /\ last.ref = 0
              /\ last.exc = ""
                     => users[last.ref].d._day_pass_count =
                            (IF last.args[4] = NotGiven THEN PyInt(0) ELSE last.args[4])

\* C13 witness: a CasualUser has been made without a day_pass_count.
C13_Witness ==
    /\ last.op = "CasualUser"
    /\ last.exc = ""
    /\ last.args[4] = NotGiven
    /\ users[last.ref].d._day_pass_count = PyInt(0)

\* C13 witness of the rejections: the last call gave the float 2.0 as
\* day_pass_count and made no user.
C13_WitnessRejected ==
    /\ last.op = "CasualUser"
    /\ last.args[4] = PyFloat(2)
    /\ last.exc = "ValueError"

\* The text a is the text b up to the case of its letters.
EqualIgnoringCase(a, b) ==
    /\ IsStr(a) /\ IsStr(b)
    /\ Len(a.s) = Len(b.s)
    /\ \A i \in DOMAIN a.s :
           \/ a.s[i] = b.s[i]
           \/ \E k \in DOMAIN UpperCase :
                  {a.s[i], b.s[i]} = {UpperCase[k], LowerCase[k]}

\* The tier an argument stands for: "basic" when it is not given.
TierGiven(v) == IF v = NotGiven THEN BASIC ELSE v

\* The dates of a call are acceptable: not both are given with end < start.
DatesAcceptable(b, e) == ~(IsDateTime(b) /\ IsDateTime(e) /\ e.n < b.n)

\* C14: MemberUser(...) with acceptable dates succeeds exactly when the
\* tier is "basic" or "premium" up to letter case, and raises ValueError for
\* every other tier; the stored tier of every existing MemberUser is exactly
\* "basic" or "premium", the one the given tier spells; a tier not given is
\* "basic".
C14_Tier ==
    /\ \A i \in 1..Len(users) :
           users[i].cls = "MemberUser" => users[i].d._tier \in {BASIC, PREMIUM}
    /\ (last.op = "MemberUser" /\ DatesAcceptable(last.args[4], last.args[5]))
           => IF \E t \in {BASIC, PREMIUM} : EqualIgnoringCase(TierGiven(last.args[6]), t)
              THEN /\ last.exc = ""
                   /\ EqualIgnoringCase(TierGiven(last.args[6]), users[last.ref].d._tier)
              ELSE last.exc = "ValueError" /\ last.ref = 0

\* C14 witness: a MemberUser made with the tier "Premium" stores "premium".
C14_Witness ==
    /\ last.op = "MemberUser"
    /\ last.exc = ""
    /\ last.args[6] = Premium
    /\ users[last.ref].d._tier = PREMIUM

\* C15: MemberUser(...) with a valid tier raises ValueError exactly when
\* membership_start and membership_end are both given and end < start; with
\* end equal to start, or with at most one of the two given, it succeeds and
\* stores the dates as given. Hence every existing MemberUser with both
\* dates has membership_end >= membership_start.
C15_DateOrder ==
    /\ \A i \in 1..Len(users) :
           (/\ users[i].cls = "MemberUser"
            /\ IsDateTime(users[i].d._membership_start)
            /\ IsDateTime(users[i].d._membership_end))
               => users[i].d._membership_end.n >= users[i].d._membership_start.n
    /\ (last.op = "MemberUser" /\ TierGiven(last.args[6]) \in {BASIC, PREMIUM})
           => IF /\ IsDateTime(last.args[4]) /\ IsDateTime(last.args[5])
                 /\ last.args[5].n < last.args[4].n
              THEN last.exc = "ValueError" /\ last.ref = 0
              ELSE /\ last.exc = ""
                   /\ users[last.ref].d._membership_start =
                          (IF last.args[4] = NotGiven THEN None ELSE last.args[4])
                   /\ users[last.ref].d._membership_end =
                          (IF last.args[5] = NotGiven THEN None ELSE last.args[5])

\* C15 witness: a MemberUser whose membership ends when it starts exists.
C15_Witness ==
    /\ last.op = "MemberUser"
    /\ last.exc = ""
    /\ last.args[4] = JUN1
    /\ last.args[5] = JUN1
    /\ users[last.ref].d._membership_end = users[last.ref].d._membership_start

\* C15 witness of the unchecked case: a MemberUser with an end and no start.
C15_WitnessOneDate ==
    /\ last.op = "MemberUser"
    /\ last.exc = ""
    /\ last.args[4] = NotGiven
    /\ last.args[5] = JAN1

-----------------------------------------------------------------------------
(* Claims about the factories.                                             *)

\* The record has the key and its value is the text t up to letter case.
TagIs(data, key, t) == key \in DOMAIN data /\ EqualIgnoringCase(data[key], t)

\* The entity of the log entry e exists: it is in the heap h as returned.
Exists(e, h) == \E j \in 1..Len(h) : h[j] = e.obj

\* C16: create_bike on a record whose bike_type is "classic" up to letter
\* case returns a ClassicBike, and on one whose bike_type is "electric" an
\* ElectricBike, with the record's bike_id; it succeeds when the record
\* gives a valid bike_id and leaves the numeric fields out, and a field left
\* out is gear_count 7, battery_level 100.0, max_range_km 50.0.
C16_CreateBike ==
    \A i \in 1..Len(log) :
        LET e == log[i] IN
        e.op = "create_bike" =>
            /\ TagIs(e.data, "bike_type", CLASSIC) =>
                   /\ DOMAIN e.data = {"bike_id", "bike_type"} => e.exc = ""
                   /\ e.exc = "" =>
                          /\ e.obj.cls = "ClassicBike" /\ Exists(e, born)
                          /\ Entity_id(e.obj) = e.data.bike_id
                          /\ "gear_count" \notin DOMAIN e.data
                                 => ClassicBike_gear_count(e.obj) = PyInt(7)
            /\ TagIs(e.data, "bike_type", ELECTRIC) =>
                   /\ DOMAIN e.data = {"bike_id", "bike_type"} => e.exc = ""
                   /\ e.exc = "" =>
                          /\ e.obj.cls = "ElectricBike" /\ Exists(e, born)
                          /\ Entity_id(e.obj) = e.data.bike_id
                          /\ "battery_level" \notin DOMAIN e.data
                                 => ElectricBike_battery_level(e.obj) = PyFloat(100)
                          /\ "max_range_km" \notin DOMAIN e.data
                                 => ElectricBike_max_range_km(e.obj) = PyFloat(50)

\* C16 witness: a record tagged "Classic" without gear_count has made a
\* ClassicBike with 7 gears, and a record tagged "ELECTRIC" with a range
\* but no battery level an ElectricBike with battery level 100.0.
C16_Witness ==
    /\ \E i \in 1..Len(log) :
           /\ DOMAIN log[i].data = {"bike_id", "bike_type"}
           /\ log[i].data.bike_type = Classic
           /\ log[i].exc = ""
           /\ ClassicBike_gear_count(log[i].obj) = PyInt(7)
    /\ \E i \in 1..Len(log) :
           /\ DOMAIN log[i].data = {"bike_id", "bike_type", "max_range_km"}
           /\ log[i].data.bike_type = ELECTRIC_UPPER
           /\ log[i].exc = ""
           /\ ElectricBike_battery_level(log[i].obj) = PyFloat(100)

\* The timestamp each date text of the records denotes.
DateOfText == {<<TEXT_JAN1, JAN1>>, <<TEXT_JUN1, JUN1>>, <<TEXT_DEC31, DEC31>>}

\* The date the entity made from the field key must carry: None when the
\* record has no such field, the timestamp a text denotes, the value itself
\* when it is a timestamp.
DateExpected(data, key, v) ==
    IF key \notin DOMAIN data THEN v = None
    ELSE IF IsStr(data[key]) THEN <<data[key], v>> \in DateOfText
    ELSE v = data[key]

\* The dates of the record are timestamps or texts of timestamps, the end
\* not before the start.
DatesInOrder(data) ==
    \A b, e \in {JAN1, JUN1, DEC31} :
        (DateExpected(data, "membership_start", b) /\ DateExpected(data, "membership_end", e))
            => e.n >= b.n

DatesValid(data) ==
    /\ \E b \in {None, JAN1, JUN1, DEC31} : DateExpected(data, "membership_start", b)
    /\ \E e \in {None, JAN1, JUN1, DEC31} : DateExpected(data, "membership_end", e)
    /\ DatesInOrder(data)

\* C17: create_user on a record whose user_type is "casual" up to letter
\* case returns a CasualUser, and on one whose user_type is "member" a
\* MemberUser, with the record's user_id, name and email; a day_pass_count
\* left out is 0 and a tier left out is "basic"; a membership date given as
\* the text of a date is stored as the timestamp of that date; the call
\* succeeds when the fields given are valid.
C17_CreateUser ==
    \A i \in 1..Len(log) :
        LET e == log[i] IN
        e.op = "create_user" =>
            /\ TagIs(e.data, "user_type", CASUAL) =>
                   /\ e.exc = ""
                   /\ e.obj.cls = "CasualUser" /\ Exists(e, users)
                   /\ Entity_id(e.obj) = e.data.user_id
                   /\ e.obj.d._name = e.data.name /\ e.obj.d._email = e.data.email
                   /\ "day_pass_count" \notin DOMAIN e.data
                          => e.obj.d._day_pass_count = PyInt(0)
            /\ (TagIs(e.data, "user_type", MEMBER) /\ DatesValid(e.data)) => e.exc = ""
            /\ (TagIs(e.data, "user_type", MEMBER) /\ e.exc = "") =>
                   /\ e.obj.cls = "MemberUser" /\ Exists(e, users)
                   /\ Entity_id(e.obj) = e.data.user_id
                   /\ e.obj.d._name = e.data.name /\ e.obj.d._email = e.data.email
                   /\ "tier" \notin DOMAIN e.data => e.obj.d._tier = BASIC
                   /\ DateExpected(e.data, "membership_start", e.obj.d._membership_start)
                   /\ DateExpected(e.data, "membership_end", e.obj.d._membership_end)

\* C17 witness: a record tagged "Member" with both dates as texts and no
\* tier has made a MemberUser of tier "basic" from 1 January to 1 June 2024.
C17_Witness ==
    \E i \in 1..Len(log) :
        /\ log[i].op = "create_user"
        /\ DOMAIN log[i].data = DOMAIN UserRecord
               \cup {"user_type", "membership_start", "membership_end"}
        /\ log[i].data.user_type = Member
        /\ log[i].data.membership_start = TEXT_JAN1
        /\ log[i].data.membership_end = TEXT_JUN1
        /\ log[i].exc = ""
        /\ log[i].obj.d._tier = BASIC
        /\ log[i].obj.d._membership_start = JAN1
        /\ log[i].obj.d._membership_end = JUN1

\* The key of the type tag of a factory, its known types and the start of
\* the message of its dispatch error.
TagKey(op) == IF op = "create_bike" THEN "bike_type" ELSE "user_type"
KnownTypes(op) == IF op = "create_bike" THEN {CLASSIC, ELECTRIC} ELSE {CASUAL, MEMBER}
UnknownPrefix(op) == IF op = "create_bike" THEN UNKNOWN_BIKE_TYPE ELSE UNKNOWN_USER_TYPE

\* The message carries the text of the tag, up to letter case.
NamesTag(msg, tag) ==
    \E k \in 0..Len(msg) :
        /\ k + Len(tag.s) <= Len(msg)
        /\ EqualIgnoringCase(PyStr(SubSeq(msg, k + 1, k + Len(tag.s))), tag)

\* C18: create_bike and create_user on a record whose type tag is missing,
\* or is a text that is no known type (up to letter case), raise ValueError
\* with a message that starts "Unknown bike_type: " (or "Unknown user_type: ")
\* and carries the tag; the call returns no entity, so the entities that
\* exist are those of the calls that succeeded.
C18_DispatchError ==
    /\ \A i \in 1..Len(log) :
           LET e == log[i]
               key == TagKey(e.op)
           IN
           (\/ key \notin DOMAIN e.data
            \/ /\ IsStr(e.data[key])
               /\ \A t \in KnownTypes(e.op) : ~EqualIgnoringCase(e.data[key], t))
               => /\ e.exc = "ValueError"
                  /\ e.obj = NoObj
                  /\ Len(e.msg) > Len(UnknownPrefix(e.op))
                  /\ SubSeq(e.msg, 1, Len(UnknownPrefix(e.op))) = UnknownPrefix(e.op)
                  /\ key \in DOMAIN e.data => NamesTag(e.msg, e.data[key])
    /\ Len(bikes) + Len(users) = Cardinality({i \in 1..Len(log) : log[i].exc = ""})

\* C18 witness: a record tagged "Scooter" and a record without user_type
\* have both been refused, and no entity exists.
C18_Witness ==
    /\ Len(log) = 2
    /\ log[1].op = "create_bike"
    /\ "bike_type" \in DOMAIN log[1].data /\ log[1].data.bike_type = Scooter
    /\ log[1].exc = "ValueError"
    /\ log[2].op = "create_user"
    /\ "user_type" \notin DOMAIN log[2].data
    /\ log[2].exc = "ValueError"
    /\ bikes = <<>> /\ users = <<>>

\* The numeric fields of a record, the numbers each may hold, and the
\* attribute of the entity that a field becomes.
NumericFields(data) ==
    IF "user_type" \in DOMAIN data THEN {"day_pass_count"}
    ELSE IF data.bike_type = CLASSIC THEN {"gear_count"}
    ELSE {"battery_level", "max_range_km"}
NumbersOf(key) ==
    CASE key = "gear_count" -> GearCounts
      [] key = "battery_level" -> BatteryLevels
      [] key = "max_range_km" -> MaxRanges
      [] key = "day_pass_count" -> DayPassCounts19
InRange(key, n) ==
    CASE key = "gear_count" -> n.n > 0
      [] key = "battery_level" -> 0 <= n.n /\ n.n <= 100
      [] key = "max_range_km" -> n.n > 0
      [] key = "day_pass_count" -> n.n >= 0
FieldOf(obj, key) ==
    CASE key = "gear_count" -> obj.d._gear_count
      [] key = "battery_level" -> obj.d._battery_level
      [] key = "max_range_km" -> obj.d._max_range_km
      [] key = "day_pass_count" -> obj.d._day_pass_count
Factory(op, data) == IF op = "create_bike" THEN create_bike(data) ELSE create_user(data)

\* C19: a call of create_bike or create_user on a record whose gear_count,
\* battery_level, max_range_km or day_pass_count is the text of a number
\* (a whole number for the two counts, a whole number or a float for the
\* other two) ends as the call on the record holding that number does: the
\* same entity, holding the number and not the text, or the same error; and
\* the text of a number out of range is refused with ValueError.
C19_Coercion ==
    \A i \in 1..Len(log) :
        LET e == log[i] IN
        \A key \in NumericFields(e.data) \cap DOMAIN e.data :
            \A n \in NumbersOf(key) :
                e.data[key] = TextOf(n)
                    => LET r == Factory(e.op, [e.data EXCEPT ![key] = n]) IN
                       /\ e.exc = r.exc
                       /\ e.msg = MsgOf(r)
                       /\ e.obj = r.obj
                       /\ e.exc = "" => /\ IsNumber(FieldOf(e.obj, key))
                                        /\ FieldOf(e.obj, key).n = n.n
                       /\ InRange(key, n) <=> e.exc = ""
                       /\ ~InRange(key, n) <=> e.exc = "ValueError"

\* C19 witness: gear_count "21" has made a bike with 21 gears and
\* battery_level "150" has been refused.
C19_Witness ==
    /\ Len(log) = 2
    /\ "gear_count" \in DOMAIN log[1].data
    /\ log[1].data.gear_count = PyStr(<<"2", "1">>)
    /\ log[1].exc = ""
    /\ ClassicBike_gear_count(log[1].obj) = PyInt(21)
    /\ "battery_level" \in DOMAIN log[2].data
    /\ log[2].data.battery_level = PyStr(<<"1", "5", "0">>)
    /\ log[2].exc = "ValueError"

\* Two calls of the same factory with the same record.
SameCall(i, j) == i < j /\ log[i].op = log[j].op /\ log[i].data = log[j].data

\* C20, as stated: two calls of create_bike (or create_user) with the same
\* record, whatever happened in between and whenever they are made, either
\* both fail with the same error or both return entities that agree on
\* every field.
C20_SameOnEveryField ==
    \A i, j \in 1..Len(log) :
        SameCall(i, j)
            => /\ log[i].exc = log[j].exc
               /\ log[i].msg = log[j].msg
               /\ log[i].obj = log[j].obj

\* C20, amended: two calls of create_bike (or create_user) with the same
\* record, whatever happened in between and whenever they are made, either
\* both fail with the same error or both return entities of the same class
\* that agree on every field other than created_at, which is the time of
\* each call.
C20_SameButCreatedAt ==
    \A i, j \in 1..Len(log) :
        SameCall(i, j)
            => /\ log[i].exc = log[j].exc
               /\ log[i].msg = log[j].msg
               /\ log[i].exc = ""
                     => /\ log[i].obj.cls = log[j].obj.cls
                        /\ DOMAIN log[i].obj.d = DOMAIN log[j].obj.d
                        /\ \A k \in DOMAIN log[i].obj.d \ {"_created_at"} :
                               log[i].obj.d[k] = log[j].obj.d[k]
                        /\ Entity_created_at(log[i].obj) = PyDateTime(log[i].at)
                        /\ Entity_created_at(log[j].obj) = PyDateTime(log[j].at)

\* C20 witness: the same record has made two entities at different times,
\* with another bike made as well.
C20_Witness ==
    /\ Len(log) = 2
    /\ SameCall(1, 2)
    /\ log[1].exc = "" /\ log[2].exc = ""
    /\ log[1].at # log[2].at
    /\ Len(bikes) + Len(users) > 2

\* C20 witness: the same record has been refused twice at different times.
C20_WitnessRefused ==
    /\ Len(log) = 2
    /\ SameCall(1, 2)
    /\ log[1].exc = "ValueError" /\ log[2].exc = "ValueError"
    /\ log[1].at # log[2].at

-----------------------------------------------------------------------------
(* Claims about the numerical functions. What a claim says of real numbers *)
(* is computed exactly, on m * 2^e without rounding, and a float is the    *)
(* number meant when it is within Tolerance of it.                         *)

ExactAdd(x, y) == LET e == LowExp(x, y) IN Normal(Scaled(x, e) + Scaled(y, e), e)
ExactSub(x, y) == LET e == LowExp(x, y) IN Normal(Scaled(x, e) - Scaled(y, e), e)
ExactMul(x, y) == Normal(x.m * y.m, x.e + y.e)

\* |x - y| <= |y| / 2^(Precision - 3): equal up to a few roundings.
Close(x, y) ==
    /\ IsFinite(x) /\ IsFinite(y)
    /\ LET e == LowExp(x, y) IN
       Abs(Scaled(x, e) - Scaled(y, e)) * 2^(Precision - 3) <= Abs(Scaled(y, e))

\* The square of the flat-plane distance of points i and j.
SquaredDistance(lats, lons, i, j) ==
    LET dlat == ExactSub(lats[i], lats[j])
        dlon == ExactSub(lons[i], lons[j])
    IN ExactAdd(ExactMul(dlat, dlat), ExactMul(dlon, dlon))

\* C21: station_distance_matrix on two sequences of the same length n
\* returns an n x n matrix that is symmetric, whose diagonal is exactly
\* zero, and whose entry (i,j) is the distance
\* sqrt((lat_i-lat_j)^2 + (lon_i-lon_j)^2): it is not negative and its
\* square is that sum, up to rounding; for n = 0 the matrix is 0 x 0.
C21_DistanceMatrix ==
    \A c \in 1..Len(log) :
        LET lats == log[c].data[1]
            lons == log[c].data[2]
            n == Len(lats)
            matrix == log[c].obj
        IN
        (log[c].op = "station_distance_matrix" /\ Len(lons) = n)
            => /\ log[c].exc = ""
               /\ matrix.shape = <<n, n>>
               /\ Len(matrix.rows) = n
               /\ \A i \in 1..n :
                     /\ Len(matrix.rows[i]) = n
                     /\ matrix.rows[i][i] = Float(0, 0)
                     /\ \A j \in 1..n :
                           /\ matrix.rows[i][j] = matrix.rows[j][i]
                           /\ IsFinite(matrix.rows[i][j])
                           /\ matrix.rows[i][j].m >= 0
                           /\ Close(ExactMul(matrix.rows[i][j], matrix.rows[i][j]),
                                    SquaredDistance(lats, lons, i, j))
               /\ n = 0 => matrix.rows = <<>>

\* C21 witness: the matrix of three different points, with the distance 5
\* between (0, 3) and (4, 0) and a distance that is no float.
C21_Witness ==
    /\ Len(log) = 1
    /\ log[1].op = "station_distance_matrix"
    /\ log[1].data = <<<<FromInt(0), FromInt(4), FromInt(1)>>,
                       <<FromInt(3), FromInt(0), FromInt(1)>>>>
    /\ log[1].obj.shape = <<3, 3>>
    /\ log[1].obj.rows[1][2] = FromInt(5)
    /\ ExactMul(log[1].obj.rows[1][3], log[1].obj.rows[1][3]) # FromInt(5)

\* C21 witness: no points give the 0 x 0 matrix.
C21_WitnessEmpty ==
    /\ Len(log) = 1
    /\ log[1].op = "station_distance_matrix"
    /\ log[1].data = <<<<>>, <<>>>>
    /\ log[1].obj.shape = <<0, 0>>

\* Sums of numbers and of their squares, without rounding.
RECURSIVE ExactSum(_, _)
ExactSum(a, n) == IF n = 0 THEN Float(0, 0) ELSE ExactAdd(ExactSum(a, n - 1), a[n])
Squares(a) == [i \in 1..Len(a) |-> ExactMul(a[i], a[i])]

\* n^2 times the population variance: n * sum(v^2) - sum(v)^2.
ScaledVariance(values) ==
    LET n == FromInt(Len(values))
        sum == ExactSum(values, Len(values))
    IN ExactSub(ExactMul(n, ExactSum(Squares(values), Len(values))), ExactMul(sum, sum))

\* |value_i - mean| / std > threshold, for a standard deviation above zero:
\* (n * value_i - sum)^2 > threshold^2 * n^2 * variance, or threshold < 0.
IsOutlier(values, i, threshold) ==
    LET n == FromInt(Len(values))
        deviation == ExactSub(ExactMul(n, values[i]), ExactSum(values, Len(values)))
    IN
    \/ threshold.m < 0
    \/ Less(ExactMul(ExactMul(threshold, threshold), ScaledVariance(values)),
            ExactMul(deviation, deviation))

AllEqual(values) == \A i, j \in 1..Len(values) : values[i] = values[j]
IsWhole(values) == \A i \in 1..Len(values) : values[i].e >= 0
Negated(values) == [i \in 1..Len(values) |-> Neg(values[i])]
OutlierCall(c) == log[c].op = "detect_outliers_zscore"

\* detect_outliers_zscore returns one boolean for each value.
C22_OneFlagEach ==
    \A c \in 1..Len(log) :
        OutlierCall(c)
            => /\ Len(log[c].obj) = Len(log[c].data[1])
               /\ \A i \in 1..Len(log[c].obj) : log[c].obj[i] \in BOOLEAN

\* Among whole numbers that are not all equal, entry i is true exactly when
\* |value_i - mean| / std > threshold, with the population standard
\* deviation and the threshold 3.0 when none is given.
C22_FlagsOutliers ==
    \A c \in 1..Len(log) :
        LET values == log[c].data[1] IN
        (OutlierCall(c) /\ IsWhole(values) /\ ~AllEqual(values))
            => \A i \in 1..Len(values) :
                   log[c].obj[i] <=> IsOutlier(values, i, Default(log[c].data[2], FromInt(3)))

\* When all values are equal, or there is one value, the standard deviation
\* is zero and every entry is false.
C22_NoneAmongEqual ==
    \A c \in 1..Len(log) :
        (OutlierCall(c) /\ AllEqual(log[c].data[1]))
            => \A i \in 1..Len(log[c].obj) : ~log[c].obj[i]

\* Negating every value leaves the flags unchanged.
C22_SameWhenNegated ==
    \A c \in 1..Len(log) :
        OutlierCall(c)
            => detect_outliers_zscore(Negated(log[c].data[1]),
                                      Default(log[c].data[2], FromInt(3))) = log[c].obj

\* C22: detect_outliers_zscore returns a boolean sequence of the length of
\* its input whose entry i is true exactly when
\* |value_i - mean| / std > threshold (strictly, population standard
\* deviation, threshold 3.0 by default); when the standard deviation is
\* exactly zero (all values equal, or a single value) every entry is false;
\* negating every value leaves the flags unchanged.
C22_Outliers ==
    /\ C22_OneFlagEach
    /\ C22_FlagsOutliers
    /\ C22_NoneAmongEqual
    /\ C22_SameWhenNegated

\* Three equal values that are no whole numbers have been flagged, all of
\* them, at a threshold of 0.5.
C22_EqualValuesFlagged ==
    /\ Len(log) = 1
    /\ OutlierCall(1)
    /\ Len(log[1].data[1]) = 3
    /\ AllEqual(log[1].data[1])
    /\ log[1].data[2] = Dec(1, 2)
    /\ log[1].obj = <<TRUE, TRUE, TRUE>>

\* The greatest magnitude among numbers, and the error allowed to a result
\* computed from them.
RECURSIVE MaxAbs(_, _)
MaxAbs(a, n) ==
    IF n = 0 THEN Float(0, 0)
    ELSE LET rest == MaxAbs(a, n - 1) IN IF Less(rest, FAbs(a[n])) THEN FAbs(a[n]) ELSE rest
Tolerance(a) == LET top == MaxAbs(a, Len(a)) IN Normal(top.m, top.e - (Precision - 2))

\* 100 times the q-th percentile by linear interpolation: with
\* (n - 1) * q = 100 * k + r, the order statistics k and k + 1 (counted from
\* zero) weighted 100 - r and r.
ScaledPercentile(sorted, q) ==
    LET position == (Len(sorted) - 1) * q
        k == position \div 100
        r == position % 100
        upper == IF k + 2 > Len(sorted) THEN Len(sorted) ELSE k + 2
    IN ExactAdd(ExactMul(FromInt(100 - r), sorted[k + 1]), ExactMul(FromInt(r), sorted[upper]))

IsAscending(a) == \A i \in 1..(Len(a) - 1) : LessEq(a[i], a[i + 1])
IsPermutation(a, b) ==
    /\ Len(a) = Len(b)
    /\ \E f \in [1..Len(a) -> 1..Len(a)] :
          /\ \A i, j \in 1..Len(a) : f[i] = f[j] => i = j
          /\ \A i \in 1..Len(a) : a[i] = b[f[i]]
OrderStatistics(a) == CHOOSE sorted \in [1..Len(a) -> {a[i] : i \in 1..Len(a)}] : IsAscending(sorted) /\ IsPermutation(sorted, a)

\* C23: trip_duration_stats on a non-empty sequence returns exactly the six
\* values mean, median, std, p25, p75 and p90, each the number meant up to
\* rounding: the mean; the middle order statistic or the mean of the two in
\* the middle; the population standard deviation; each percentile between
\* the two nearest order statistics, interpolated linearly. For
\* [10, 20, 30, 40, 50] the mean and the median are 30, p25 = 20, p75 = 40
\* and p90 = 46; for a single value, mean = median = the value and std = 0.
C23_Stats ==
    \A c \in 1..Len(log) :
        LET durations == log[c].data[1]
            n == Len(durations)
            count == FromInt(n)
            stats == log[c].obj
            sorted == OrderStatistics(durations)
            Percentile(p, q) ==
                LET k == ((n - 1) * q) \div 100
                    upper == IF k + 2 > n THEN n ELSE k + 2
                IN
                /\ LessEq(sorted[k + 1], p) /\ LessEq(p, sorted[upper])
                /\ Close(ExactMul(FromInt(100), p), ScaledPercentile(sorted, q))
            tolerance == Tolerance(durations)
            below == IF Less(stats.std, tolerance) THEN Float(0, 0)
                     ELSE ExactSub(stats.std, tolerance)
            above == ExactAdd(stats.std, tolerance)
        IN
        log[c].op = "trip_duration_stats"
            => /\ DOMAIN stats = {"mean", "median", "std", "p25", "p75", "p90"}
               /\ \A key \in DOMAIN stats : IsFinite(stats[key])
               /\ Close(ExactMul(count, stats.mean), ExactSum(durations, n))
               /\ IF n % 2 = 1 THEN stats.median = sorted[(n + 1) \div 2]
                  ELSE Close(ExactMul(FromInt(2), stats.median),
                             ExactAdd(sorted[n \div 2], sorted[n \div 2 + 1]))
               /\ stats.std.m >= 0
               /\ LessEq(ExactMul(ExactMul(count, count), ExactMul(below, below)),
                         ScaledVariance(durations))
               /\ LessEq(ScaledVariance(durations),
                         ExactMul(ExactMul(count, count), ExactMul(above, above)))
               /\ Percentile(stats.p25, 25)
               /\ Percentile(stats.p75, 75)
               /\ Percentile(stats.p90, 90)
               /\ durations = TEN_TO_FIFTY
                     => /\ stats.mean = FromInt(30) /\ stats.median = FromInt(30)
                        /\ stats.p25 = FromInt(20) /\ stats.p75 = FromInt(40)
                        /\ stats.p90 = FromInt(46)
               /\ n = 1 => /\ stats.mean = durations[1] /\ stats.median = durations[1]
                           /\ stats.std = Float(0, 0)

\* C23 witness: the statistics of [10, 20, 30, 40, 50], with p90 = 46
\* between 40 and 50 and a standard deviation that is no float.
C23_Witness ==
    /\ Len(log) = 1
    /\ log[1].op = "trip_duration_stats"
    /\ log[1].data[1] = TEN_TO_FIFTY
    /\ log[1].obj.p90 = FromInt(46)
    /\ ExactMul(log[1].obj.std, log[1].obj.std) # FromInt(200)

\* C23 witness: the statistics of a single duration.
C23_WitnessSingle ==
    /\ Len(log) = 1
    /\ log[1].op = "trip_duration_stats"
    /\ log[1].data[1] = <<FromInt(42)>>
    /\ log[1].obj.mean = FromInt(42)
    /\ log[1].obj.std = Float(0, 0)

\* A number that is a float: rounding leaves it as it is.
IsFloat(x) == RoundTo(x.m, x.e) = x

\* C24: calculate_fares on two paired sequences of the same length n returns
\* n fares, entry i being unlock_fee + per_minute * duration_i +
\* per_km * distance_i with unlock_fee 0 when none is given: the float
\* nearest to that number within a few roundings, and that number itself
\* when it and the partial results are floats; an entry with zero duration
\* and zero distance is exactly unlock_fee.
C24_Fares ==
    \A c \in 1..Len(log) :
        LET durations == log[c].data[1]
            distances == log[c].data[2]
            per_minute == log[c].data[3]
            per_km == log[c].data[4]
            unlock_fee == IF log[c].data[5] = NotGiven THEN Float(0, 0) ELSE log[c].data[5]
            n == Len(durations)
            fares == log[c].obj
            ForTime(i) == ExactMul(per_minute, durations[i])
            ForDistance(i) == ExactMul(per_km, distances[i])
            Fare(i) == ExactAdd(ExactAdd(unlock_fee, ForTime(i)), ForDistance(i))
        IN
        (log[c].op = "calculate_fares" /\ Len(distances) = n)
            => /\ log[c].exc = ""
               /\ Len(fares) = n
               /\ \A i \in 1..n :
                     /\ Close(fares[i], Fare(i))
                     /\ (/\ IsFloat(ForTime(i)) /\ IsFloat(ForDistance(i))
                         /\ IsFloat(ExactAdd(unlock_fee, ForTime(i))) /\ IsFloat(Fare(i)))
                            => fares[i] = Fare(i)
                     /\ (durations[i] = Float(0, 0) /\ distances[i] = Float(0, 0))
                            => fares[i] = unlock_fee

\* C24 witness: three trips charged at 0.15 a minute and 0.10 a kilometre
\* with an unlock fee of 1, the first with no duration and no distance.
C24_Witness ==
    /\ Len(log) = 1
    /\ log[1].op = "calculate_fares"
    /\ log[1].data = <<<<FromInt(0), FromInt(10), FromInt(20)>>,
                       <<FromInt(0), FromInt(2), FromInt(5)>>,
                       Dec(15, 100), Dec(10, 100), FromInt(1)>>
    /\ Len(log[1].obj) = 3
    /\ log[1].obj[1] = FromInt(1)
    /\ Less(FromInt(2), log[1].obj[2]) /\ Less(log[1].obj[2], FromInt(3))

\* C24 witness: with no unlock fee, 20 minutes and 5 kilometres at 0.5 and
\* 0.25 cost 11.25.
C24_WitnessNoFee ==
    /\ Len(log) = 1
    /\ log[1].op = "calculate_fares"
    /\ log[1].data = <<<<FromInt(20)>>, <<FromInt(5)>>, Dec(1, 2), Dec(1, 4), NotGiven>>
    /\ log[1].obj = <<Dec(45, 4)>>

-----------------------------------------------------------------------------
(* Claims about the display form and the diagnostic form.                  *)

Forms == {"str", "repr"}

\* C25: every entity, a Trip and a MaintenanceRecord included, gives its
\* display form and its diagnostic form in any state after its construction
\* (no read fails); a read changes no field of any entity; two reads of the
\* same form on the same field values give the same text.
C25_FormsOfEveryEntity ==
    /\ \A k \in 1..Len(log) : log[k].op \in Forms => log[k].exc = ""
    /\ last.op \in Forms => last.pre = <<bikes, stations, users, trips, records>>
    /\ \A j, k \in 1..Len(log) :
           (log[j].op \in Forms /\ log[j].op = log[k].op /\ log[j].obj = log[k].obj)
               => (log[j].exc = log[k].exc /\ log[j].msg = log[k].msg)

\* The forms of an entity of every class but Trip are obtained.
C25_FormsButOfTrips ==
    \A k \in 1..Len(log) :
        (log[k].op \in Forms /\ log[k].obj.cls # "Trip") => log[k].exc = ""

\* A maintenance record has been read after a bike's status changed, and the
\* read gave a text.
C25_RecordRead ==
    /\ last.op = "str"
    /\ last.args = <<"record">>
    /\ last.exc = ""
    /\ \E i \in 1..Len(bikes) : Bike_status(bikes[i]) # Bike_status(born[i])

\* The display form of a trip has been asked for and was refused.
C25_TripRefused ==
    /\ last.op = "str"
    /\ last.args = <<"trip">>
    /\ last.exc = "AttributeError"

\* Two bikes as they were read: the same class and the same fields that the
\* constructor was given, and statuses that differ.
DifferInStatusOnly(a, b) ==
    /\ a.cls = b.cls
    /\ Bike_status(a) # Bike_status(b)
    /\ [a EXCEPT !.d._status = Bike_status(b), !.d._created_at = Entity_created_at(b)] = b

DiagnosticReads == {k \in 1..Len(log) : log[k].op = "repr" /\ log[k].exc = ""}

\* C26: two bikes of the same class and the same constructor-supplied fields
\* whose current statuses differ, after any status assignments, have
\* diagnostic forms that differ.
C26_StatusInDiagnosticForm ==
    \A j, k \in DiagnosticReads :
        DifferInStatusOnly(log[j].obj, log[k].obj) => log[j].msg # log[k].msg

\* The same of every bike that is no ElectricBike.
C26_StatusInFormButElectric ==
    \A j, k \in DiagnosticReads :
        (DifferInStatusOnly(log[j].obj, log[k].obj) /\ log[j].obj.cls # "ElectricBike")
            => log[j].msg # log[k].msg

\* Two electric bikes, one of them assigned another status, have been read
\* and gave the same diagnostic form.
C26_ElectricSame ==
    /\ Len(bikes) = 2
    /\ DiagnosticReads = {1, 2}
    /\ log[1].obj = bikes[1]
    /\ log[2].obj = bikes[2]
    /\ bikes[1].cls = "ElectricBike"
    /\ DifferInStatusOnly(bikes[1], bikes[2])
    /\ log[1].msg = log[2].msg

\* Two classic bikes, one of them assigned another status, have been read
\* and gave diagnostic forms that differ.
C26_ClassicDiffer ==
    /\ Len(bikes) = 2
    /\ DiagnosticReads = {1, 2}
    /\ log[1].obj = bikes[1]
    /\ log[2].obj = bikes[2]
    /\ bikes[1].cls = "ClassicBike"
    /\ DifferInStatusOnly(bikes[1], bikes[2])
    /\ bikes[2] # born[2]
    /\ log[1].msg # log[2].msg

-----------------------------------------------------------------------------
(* Claims about the types of a member's dates.                             *)

AbsentOrTimestamp(v) == v = None \/ IsDateTime(v)

MemberUser_membership_start(o) == o.d._membership_start
MemberUser_membership_end(o) == o.d._membership_end

\* C27: membership_start and membership_end of every existing MemberUser are
\* each None or a timestamp; MemberUser(...) with a value for either date
\* that is no timestamp, an empty or zero-like one such as "" or 0 included,
\* is rejected and stores nothing.
C27_DatesAreTimestamps ==
    /\ \A i \in 1..Len(users) :
           users[i].cls = "MemberUser"
               => /\ AbsentOrTimestamp(MemberUser_membership_start(users[i]))
                  /\ AbsentOrTimestamp(MemberUser_membership_end(users[i]))
    /\ (/\ last.op = "MemberUser"
        /\ \/ ~AbsentOrTimestamp(Default(last.args[4], None))
           \/ ~AbsentOrTimestamp(Default(last.args[5], None)))
           => (last.exc = "ValueError" /\ users = <<>>)

\* The same of the values that are not empty or zero-like.
C27_TruthyDatesAreTimestamps ==
    /\ \A i \in 1..Len(users) :
           users[i].cls = "MemberUser"
               => /\ Truthy(MemberUser_membership_start(users[i]))
                      => IsDateTime(MemberUser_membership_start(users[i]))
                  /\ Truthy(MemberUser_membership_end(users[i]))
                      => IsDateTime(MemberUser_membership_end(users[i]))
    /\ (/\ last.op = "MemberUser"
        /\ \/ (/\ Truthy(Default(last.args[4], None))
               /\ ~IsDateTime(Default(last.args[4], None)))
           \/ (/\ Truthy(Default(last.args[5], None))
               /\ ~IsDateTime(Default(last.args[5], None))))
           => (last.exc = "ValueError" /\ users = <<>>)

\* A MemberUser made with membership_start "" and membership_end 0 exists
\* and holds both.
C27_EmptyStored ==
    /\ last.op = "MemberUser"
    /\ last.exc = ""
    /\ last.args[4] = EMPTY
    /\ last.args[5] = PyInt(0)
    /\ MemberUser_membership_start(users[1]) = EMPTY
    /\ MemberUser_membership_end(users[1]) = PyInt(0)

\* A call with the text "2024" for a date has been rejected.
C27_TextRejected ==
    /\ last.op = "MemberUser"
    /\ last.args[4] = TEXT_2024
    /\ last.exc = "ValueError"

-----------------------------------------------------------------------------
(* Claims about the errors of the factories.                               *)

FactoryCalls == {k \in 1..Len(log) : log[k].op \in {"create_bike", "create_user"}}

\* The keys a record with a recognized type tag must have.
RequiredKeys(op) == IF op = "create_bike" THEN {"bike_id"} ELSE {"user_id", "name", "email"}

HasKnownType(op, data) ==
    /\ TagKey(op) \in DOMAIN data
    /\ IsStr(data[TagKey(op)])
    /\ Lower(data[TagKey(op)]) \in KnownTypes(op)

\* C28: every failure of create_bike or create_user on a record of texts and
\* numbers is a validation error or a dispatch error (ValueError); a record
\* with a recognized type tag that lacks bike_id, user_id, name or email,
\* and a record whose type tag is no text, fail with such an error, not
\* with KeyError or AttributeError.
C28_DocumentedErrors ==
    \A k \in FactoryCalls :
        /\ log[k].exc \in {"", "ValueError"}
        /\ (HasKnownType(log[k].op, log[k].data)
                /\ RequiredKeys(log[k].op) \ DOMAIN log[k].data # {})
               => log[k].exc = "ValueError"
        /\ (TagKey(log[k].op) \in DOMAIN log[k].data
                /\ ~IsStr(log[k].data[TagKey(log[k].op)]))
               => log[k].exc = "ValueError"

\* The same of the records that have the keys they must have and a type tag
\* that is a text, or none: a failure is a ValueError.
C28_ErrorsOfCompleteRecords ==
    \A k \in FactoryCalls :
        (/\ RequiredKeys(log[k].op) \subseteq DOMAIN log[k].data
         /\ TagKey(log[k].op) \in DOMAIN log[k].data
                => IsStr(log[k].data[TagKey(log[k].op)]))
            => log[k].exc \in {"", "ValueError"}

\* A classic record without bike_id has failed with KeyError.
C28_KeyError ==
    /\ last.op = "create_bike"
    /\ HasKnownType("create_bike", last.args[1])
    /\ "bike_id" \notin DOMAIN last.args[1]
    /\ last.exc = "KeyError"

\* A user record whose user_type is a number has failed with
\* AttributeError.
C28_AttributeError ==
    /\ last.op = "create_user"
    /\ "user_type" \in DOMAIN last.args[1]
    /\ ~IsStr(last.args[1].user_type)
    /\ last.exc = "AttributeError"

\* A record with every key it must have has failed with ValueError on a
\* field value.
C28_ValidationError ==
    /\ last.op = "create_user"
    /\ HasKnownType("create_user", last.args[1])
    /\ RequiredKeys("create_user") \subseteq DOMAIN last.args[1]
    /\ last.exc = "ValueError"

====
